---- MODULE Spec2Model ----
(***************************************************************************)
(* A model of modern-patch-package: the patch file-name grammar            *)
(* (generatePatchFileName and the pattern of listPatches), the catalogue   *)
(* ordering, and the create / apply / reverse operations of the class      *)
(* ModernPatchPackage over a patch directory and an installed dependency.  *)
(*                                                                         *)
(* Strings are sequences of one-character strings.  The suffix ".patch"    *)
(* is one token, DotPatch, that no other part of a name contains: the      *)
(* pattern of listPatches ends in \.patch$, so it decodes the part of the  *)
(* name in front of the last ".patch".  A path inside the patch directory  *)
(* is modelled by its base name (path.join(patchDir, n), path.basename).   *)
(***************************************************************************)
EXTENDS Integers, Sequences, FiniteSets, TLC

(***************************************************************************)
(* Bounds of the model.                                                    *)
(***************************************************************************)
MaxSeq == 2

MaxFiles == 3

MaxDir == 3

\* The most runs of the create command in a behaviour.
MaxCreates == 2

\* The most lines of a file given to the structural diff.
MaxLines == 2

\* The most patterns in a list given to --include or to --exclude.
MaxPatterns == 2

(***************************************************************************)
(* State.                                                                  *)
(*   nm          the file-name round trip: the fields given to             *)
(*               generatePatchFileName, the name it returned and what the  *)
(*               pattern of listPatches decoded from it;                   *)
(*   cat         the catalogue: what getPatchFiles returned and what       *)
(*               listPatches made of it;                                   *)
(*   proj        the project directory: its lock files, what the version   *)
(*               queries answer, and the dependency directories present;   *)
(*   deps        the installed dependencies: package directory ->          *)
(*               manifest and files;                                       *)
(*   patchDir    the *.patch entries of the patch directory, in the order  *)
(*               the directory enumeration yields them;                    *)
(*   bodyOf      the body of each entry of patchDir;                       *)
(*   tempDir     <patchDir>/temp-original: absent, or its tarballs and     *)
(*               extracted files;                                          *)
(*   applyRun    the last applyPatches: the directory it ran on, what it   *)
(*               attempted and its PatchResult;                            *)
(*   reverseRun  the same for the last reversePatches;                     *)
(*   createLog   the createPatch calls so far, with their PatchResult;     *)
(*   df          one structural diff: the two trees compared and the body  *)
(*               lines pushed for them;                                    *)
(*   rp          one getPackagePath call: the name asked for, the answer   *)
(*               of "yarn info", the paths probed and the path returned;   *)
(*               or one detectPackageManager call and its result;          *)
(*   sf          one shouldIncludeFile call: its arguments and its result. *)
(***************************************************************************)
VARIABLES nm, cat, proj, deps, patchDir, bodyOf, tempDir, applyRun, reverseRun,
          createLog, df, rp, sf

vars == <<nm, cat, proj, deps, patchDir, bodyOf, tempDir, applyRun, reverseRun,
          createLog, df, rp, sf>>

trialVars == <<df, rp, sf>>

lifeVars == <<proj, deps, patchDir, bodyOf, tempDir, applyRun, reverseRun,
              createLog>>

(***************************************************************************)
(* Characters and strings.                                                 *)
(***************************************************************************)
DotPatch == ".patch"

Plus == "+"

Digits == <<"0", "1", "2", "3", "4", "5", "6", "7", "8", "9">>

IsDigit(c) == \E i \in 1..10 : Digits[i] = c

\* The value of a digit character.
DigitValue(c) == (CHOOSE i \in 1..10 : Digits[i] = c) - 1

\* Collation rank of the characters the model uses; on these characters
\* String.prototype.localeCompare agrees with the order of the ranks.
CharRank(c) ==
  CASE c = "+" -> 0
    [] c = "." -> 1
    [] c = "-" -> 2
    [] IsDigit(c) -> 3 + DigitValue(c)
    [] c = "a" -> 20
    [] c = "b" -> 21
    [] c = "x" -> 22
    [] c = "y" -> 23
    [] OTHER -> 30

\* a.localeCompare(b): negative, zero or positive.
RECURSIVE localeCompare(_, _)
localeCompare(a, b) ==
  IF a = <<>> /\ b = <<>> THEN 0
  ELSE IF a = <<>> THEN -1
  ELSE IF b = <<>> THEN 1
  ELSE IF CharRank(Head(a)) < CharRank(Head(b)) THEN -1
  ELSE IF CharRank(Head(a)) > CharRank(Head(b)) THEN 1
  ELSE localeCompare(Tail(a), Tail(b))

\* Number.prototype.toString for a natural number.
RECURSIVE NumToString(_)
NumToString(n) ==
  IF n < 10 THEN <<Digits[n + 1]>>
  ELSE NumToString(n \div 10) \o <<Digits[(n % 10) + 1]>>

\* A variant that pads nothing.
padStartNothing(s, width) == s

\* String.prototype.padStart(width, '0').
RECURSIVE padStart(_, _)
padStart(s, width) ==
  IF Len(s) >= width THEN s ELSE padStart(<<"0">> \o s, width)

\* parseInt of a non-empty string of decimal digits.
RECURSIVE parseInt(_)
parseInt(s) ==
  IF s = <<>> THEN 0
  ELSE 10 * parseInt(SubSeq(s, 1, Len(s) - 1)) + DigitValue(s[Len(s)])

(***************************************************************************)
(* Optional values: <<>> is undefined, <<v>> is the value v.               *)
(***************************************************************************)
Undefined == <<>>

Some(v) == <<v>>

IsDefined(o) == o # <<>>

(***************************************************************************)
(* generatePatchFileName (utils.ts).  sequence is Undefined or Some(n);    *)
(* description is Undefined or Some(string); the empty string is falsy.    *)
(***************************************************************************)
generatePatchFileName(packageName, packageVersion, sequence, description) ==
  LET base == packageName \o <<Plus>> \o packageVersion
      withSeq ==
        IF IsDefined(sequence)
        THEN base \o <<Plus>> \o padStart(NumToString(sequence[1]), 3)
               \o (IF IsDefined(description) /\ description[1] # <<>>
                   THEN <<Plus>> \o description[1]
                   ELSE <<>>)
        ELSE base
  IN  withSeq \o <<DotPatch>>

(***************************************************************************)
(* shouldIncludeFile (utils.ts).  A pattern is turned into the source of   *)
(* a regular expression, a sequence of tokens:                             *)
(*   [k |-> "esc", c |-> c]   a backslash and the character c,             *)
(*   [k |-> "dotstar"]        '.*',                                        *)
(*   [k |-> "raw", c |-> c]   the character c as it stands,                *)
(* and new RegExp('^' + source + '$', flags).test(filePath) is computed as *)
(* the engine computes it: a raw '?' is the quantifier of what precedes    *)
(* it, and a source the engine does not accept throws a SyntaxError.       *)
(***************************************************************************)
\* The characters of the class [.+^${}()|[\]\\].
EscapedChars == {".", "+", "^", "$", "{", "}", "(", ")", "|", "[", "]", "\\"}

\* What the two replace calls of globToRegExp make of one character.
GlobToken(c) ==
  IF c \in EscapedChars THEN [k |-> "esc", c |-> c]
  ELSE IF c = "*" THEN [k |-> "dotstar", c |-> c]
  ELSE [k |-> "raw", c |-> c]

\* globToRegExp(pattern), without the anchors.
globToRegExp(pattern) == [i \in 1..Len(pattern) |-> GlobToken(pattern[i])]

IsQuantifier(token) == token.k = "raw" /\ token.c = "?"

\* The count of '?' tokens that follow position i directly.
RECURSIVE QuantifiersAfter(_, _)
QuantifiersAfter(source, i) ==
  IF i + 1 <= Len(source) /\ IsQuantifier(source[i + 1])
  THEN 1 + QuantifiersAfter(source, i + 1)
  ELSE 0

\* The source parsed from position i on: the atoms, each optional or not, or
\* a syntax error.  'x?' is optional and 'x??' is the same, lazily; '.*?' is
\* '.*', lazily; a further '?' has nothing to repeat.
RECURSIVE ParseFrom(_, _)
ParseFrom(source, i) ==
  IF i > Len(source) THEN [ok |-> TRUE, atoms |-> <<>>]
  ELSE IF IsQuantifier(source[i]) THEN [ok |-> FALSE, atoms |-> <<>>]
  ELSE LET q == QuantifiersAfter(source, i)
           allowed == IF source[i].k = "dotstar" THEN 1 ELSE 2
           rest == ParseFrom(source, i + q + 1)
           atom == [any |-> source[i].k = "dotstar", c |-> source[i].c,
                    optional |-> q >= 1 /\ source[i].k # "dotstar"]
       IN  IF q > allowed \/ ~rest.ok THEN [ok |-> FALSE, atoms |-> <<>>]
           ELSE [ok |-> TRUE, atoms |-> <<atom>> \o rest.atoms]

\* The canonical form of a character under the flag 'i'.
FoldCase(c) ==
  CASE c = "A" -> "a"
    [] c = "J" -> "j"
    [] OTHER -> c

SameChar(c, d, ignoreCase) ==
  IF ignoreCase THEN FoldCase(c) = FoldCase(d) ELSE c = d

\* The atoms match the whole of s.
RECURSIVE MatchAtoms(_, _, _)
MatchAtoms(atoms, s, ignoreCase) ==
  IF atoms = <<>> THEN s = <<>>
  ELSE LET atom == Head(atoms)
       IN  IF atom.any
           THEN \E k \in 0..Len(s) :
                  MatchAtoms(Tail(atoms), SubSeq(s, k + 1, Len(s)), ignoreCase)
           ELSE \/ /\ atom.optional
                   /\ MatchAtoms(Tail(atoms), s, ignoreCase)
                \/ /\ s # <<>>
                   /\ SameChar(Head(s), atom.c, ignoreCase)
                   /\ MatchAtoms(Tail(atoms), Tail(s), ignoreCase)

\* new RegExp(globToRegExp(pattern), flags).test(filePath): "throws" when the
\* constructor rejects the source.
RegExpTest(pattern, caseSensitive, filePath) ==
  LET parsed == ParseFrom(globToRegExp(pattern), 1)
  IN  IF ~parsed.ok THEN "throws"
      ELSE IF MatchAtoms(parsed.atoms, filePath, ~caseSensitive) THEN "true"
      ELSE "false"

\* One of the two loops over a list of patterns: "matched" at the first
\* pattern that matches, "throws" at the first that is rejected, else "none".
RECURSIVE TestPatterns(_, _, _)
TestPatterns(patterns, caseSensitive, filePath) ==
  IF patterns = <<>> THEN "none"
  ELSE LET tested == RegExpTest(Head(patterns), caseSensitive, filePath)
       IN  IF tested = "throws" THEN "throws"
           ELSE IF tested = "true" THEN "matched"
           ELSE TestPatterns(Tail(patterns), caseSensitive, filePath)

\* shouldIncludeFile: "true", "false", or "throws" when the promise rejects.
\* include and exclude are Undefined or Some(list of patterns).
shouldIncludeFile(filePath, include, exclude, caseSensitive) ==
  LET excluded == IF IsDefined(exclude) /\ Len(exclude[1]) > 0
                  THEN TestPatterns(exclude[1], caseSensitive, filePath)
                  ELSE "none"
      included == TestPatterns(include[1], caseSensitive, filePath)
  IN  IF excluded = "throws" THEN "throws"
      ELSE IF excluded = "matched" THEN "false"
      ELSE IF IsDefined(include) /\ Len(include[1]) > 0
      THEN (IF included = "throws" THEN "throws"
            ELSE IF included = "matched" THEN "true"
            ELSE "false")
      ELSE "true"

(***************************************************************************)
(* The pattern of listPatches,                                             *)
(*   /^(.+)\+([^+]+)(?:\+(\d+)(?:\+(.+))?)?\.patch$/                       *)
(* matched as a backtracking matcher does: the first group is greedy, so   *)
(* the longest package name that lets the rest match is the one found.     *)
(***************************************************************************)
\* The end of the longest run of non-'+' characters (nonPlus) or of digits that
\* starts at from (from - 1 when the run is empty).
RECURSIVE RunEnd(_, _, _)
RunEnd(s, from, nonPlus) ==
  IF from > Len(s) THEN from - 1
  ELSE IF (IF nonPlus THEN s[from] # Plus ELSE IsDigit(s[from]))
       THEN RunEnd(s, from + 1, nonPlus)
       ELSE from - 1

NoMatch == <<>>

\* The match with the first group ending at i, or NoMatch.  [^+]+ and \d+ can
\* only end where their run ends: what follows them is a '+' or the end.
MatchWithNameEnd(s, i) ==
  IF ~(i >= 1 /\ i + 1 <= Len(s) /\ s[i + 1] = Plus) THEN NoMatch
  ELSE
    LET j == RunEnd(s, i + 2, TRUE)
        k == RunEnd(s, j + 2, FALSE)
        plain == [packageName |-> SubSeq(s, 1, i),
                  packageVersion |-> SubSeq(s, i + 2, j),
                  sequence |-> Undefined,
                  description |-> Undefined]
    IN  IF j < i + 2 THEN NoMatch
        ELSE IF j = Len(s) THEN <<plain>>
        ELSE IF k < j + 2 THEN NoMatch
        ELSE IF k + 1 <= Len(s) /\ s[k + 1] = Plus /\ k + 2 <= Len(s)
             THEN <<[plain EXCEPT !.sequence = Some(SubSeq(s, j + 2, k)),
                                  !.description = Some(SubSeq(s, k + 2, Len(s)))]>>
        ELSE IF k = Len(s)
             THEN <<[plain EXCEPT !.sequence = Some(SubSeq(s, j + 2, k))]>>
        ELSE NoMatch

\* The greedy first group: the longest package name is tried first.
RECURSIVE MatchLongestFrom(_, _)
MatchLongestFrom(s, i) ==
  IF i < 1 THEN NoMatch
  ELSE IF MatchWithNameEnd(s, i) # NoMatch THEN MatchWithNameEnd(s, i)
  ELSE MatchLongestFrom(s, i - 1)

\* fileName.match(pattern): NoMatch, or <<groups>> with the raw captures.
matchFileName(fileName) ==
  IF fileName = <<>> \/ fileName[Len(fileName)] # DotPatch THEN NoMatch
  ELSE LET stem == SubSeq(fileName, 1, Len(fileName) - 1)
       IN  MatchLongestFrom(stem, Len(stem) - 1)

\* The PatchFile listPatches builds from a name that matches.
PatchFileOf(fileName) ==
  LET m == matchFileName(fileName)[1]
  IN  [name |-> fileName,
       packageName |-> m.packageName,
       packageVersion |-> m.packageVersion,
       sequence |-> IF IsDefined(m.sequence)
                    THEN Some(parseInt(m.sequence[1]))
                    ELSE Undefined,
       description |-> m.description]

(***************************************************************************)
(* The comparator of listPatches and Array.prototype.sort.                 *)
(***************************************************************************)
\* a.sequence || 0
SeqOrZero(p) == IF IsDefined(p.sequence) THEN p.sequence[1] ELSE 0

\* (a, b) => ... of patches.sort: negative, zero or positive.
comparePatchFiles(a, b) ==
  IF a.packageName # b.packageName
  THEN localeCompare(a.packageName, b.packageName)
  ELSE IF a.sequence # b.sequence
  THEN SeqOrZero(a) - SeqOrZero(b)
  ELSE localeCompare(a.packageVersion, b.packageVersion)

Reverse(s) == [i \in 1..Len(s) |-> s[Len(s) + 1 - i]]

\* Array.prototype.sort on an array shorter than a minimum run, as the engine
\* runs it: the leading run is found (a strictly descending one is reversed)
\* and the rest is inserted by binary search.  The result for a comparator
\* that is not consistent is whatever this leaves.
RECURSIVE RunLength(_, _, _)
RunLength(a, idx, descending) ==
  IF idx > Len(a) THEN idx - 1
  ELSE LET order == comparePatchFiles(a[idx], a[idx - 1])
       IN  IF (descending /\ order >= 0) \/ (~descending /\ order < 0)
           THEN idx - 1
           ELSE RunLength(a, idx + 1, descending)

\* The 0-based insertion point of pivot in a[left+1 .. right].
RECURSIVE BinarySearch(_, _, _, _)
BinarySearch(a, pivot, left, right) ==
  IF left >= right THEN left
  ELSE LET mid == left + ((right - left) \div 2)
       IN  IF comparePatchFiles(pivot, a[mid + 1]) < 0
           THEN BinarySearch(a, pivot, left, mid)
           ELSE BinarySearch(a, pivot, mid + 1, right)

RECURSIVE BinaryInsertionSort(_, _)
BinaryInsertionSort(a, start) ==
  IF start > Len(a) THEN a
  ELSE LET pivot == a[start]
           pos == BinarySearch(a, pivot, 0, start - 1)
           moved == SubSeq(a, 1, pos) \o <<pivot>> \o SubSeq(a, pos + 1, start - 1)
                      \o SubSeq(a, start + 1, Len(a))
       IN  BinaryInsertionSort(moved, start + 1)

sortPatchFiles(a) ==
  IF Len(a) < 2 THEN a
  ELSE LET descending == comparePatchFiles(a[2], a[1]) < 0
           run == RunLength(a, 3, descending)
           made == IF descending
                   THEN Reverse(SubSeq(a, 1, run)) \o SubSeq(a, run + 1, Len(a))
                   ELSE a
       IN  BinaryInsertionSort(made, run + 1)

\* The loop of listPatches: the names that match, decoded, in the order given.
RECURSIVE decodeAll(_)
decodeAll(patchFiles) ==
  IF patchFiles = <<>> THEN <<>>
  ELSE (IF matchFileName(Head(patchFiles)) # NoMatch
        THEN <<PatchFileOf(Head(patchFiles))>>
        ELSE <<>>) \o decodeAll(Tail(patchFiles))

\* listPatches on what getPatchFiles returned.
listPatches(patchFiles) == sortPatchFiles(decodeAll(patchFiles))

(***************************************************************************)
(* The project directory and path resolution (utils.ts).                   *)
(* A package directory is the pair <<top, name>> for <cwd>/<top>/<name>;   *)
(* it exists exactly when it is in the domain of deps.                     *)
(***************************************************************************)
NodeModules == "node_modules"

DotPnpm == ".pnpm"

YarnCache == ".yarn/cache"

YarnUnplugged == ".yarn/unplugged"

Unknown == <<"u", "n", "k", "n", "o", "w", "n">>

\* get<Manager>Version: the trimmed answer of "<manager> --version", or
\* 'unknown' when the query throws (version[manager] is Undefined).
getVersion(pj, manager) ==
  IF IsDefined(pj.version[manager]) THEN pj.version[manager][1] ELSE Unknown

\* A variant that looks for pnpm-lock.yaml before yarn.lock.
detectPackageManagerPnpmFirst(pj) ==
  IF "pnpm-lock.yaml" \in pj.lockFiles
  THEN [name |-> "pnpm", version |-> getVersion(pj, "pnpm"),
        lockFile |-> "pnpm-lock.yaml", hasLockFile |-> TRUE]
  ELSE IF "yarn.lock" \in pj.lockFiles
  THEN [name |-> "yarn", version |-> getVersion(pj, "yarn"),
        lockFile |-> "yarn.lock", hasLockFile |-> TRUE]
  ELSE IF "package-lock.json" \in pj.lockFiles
  THEN [name |-> "npm", version |-> getVersion(pj, "npm"),
        lockFile |-> "package-lock.json", hasLockFile |-> TRUE]
  ELSE [name |-> "npm", version |-> getVersion(pj, "npm"),
        lockFile |-> "package-lock.json", hasLockFile |-> FALSE]

detectPackageManager(pj) ==
  IF "yarn.lock" \in pj.lockFiles
  THEN [name |-> "yarn", version |-> getVersion(pj, "yarn"),
        lockFile |-> "yarn.lock", hasLockFile |-> TRUE]
  ELSE IF "pnpm-lock.yaml" \in pj.lockFiles
  THEN [name |-> "pnpm", version |-> getVersion(pj, "pnpm"),
        lockFile |-> "pnpm-lock.yaml", hasLockFile |-> TRUE]
  ELSE IF "package-lock.json" \in pj.lockFiles
  THEN [name |-> "npm", version |-> getVersion(pj, "npm"),
        lockFile |-> "package-lock.json", hasLockFile |-> TRUE]
  ELSE [name |-> "npm", version |-> getVersion(pj, "npm"),
        lockFile |-> "package-lock.json", hasLockFile |-> FALSE]

\* A variant that takes no yarn version for a 1.x.
StartsWithOneDotNever(v) == FALSE

\* version.startsWith('1.')
StartsWithOneDot(v) == Len(v) >= 2 /\ v[1] = "1" /\ v[2] = "."

\* The first of the directories that exists, or fallback.
RECURSIVE FirstExisting(_, _, _)
FirstExisting(pj, tops, fallback) ==
  IF tops = <<>> THEN fallback
  ELSE IF Head(tops) \in pj.dirs THEN Head(tops)
  ELSE FirstExisting(pj, Tail(tops), fallback)

findNodeModulesPath(pj) ==
  LET packageManager == detectPackageManager(pj)
  IN  IF packageManager.name = "yarn"
      THEN IF StartsWithOneDot(packageManager.version)
           THEN NodeModules
           ELSE FirstExisting(pj, <<NodeModules, YarnCache, YarnUnplugged>>,
                              NodeModules)
      ELSE FirstExisting(pj, <<NodeModules, DotPnpm>>, NodeModules)

\* A variant that looks into .yarn/unplugged before .yarn/cache.
BerryProbeOrderUnpluggedFirst == <<NodeModules, YarnUnplugged, YarnCache>>

\* The order in which getPackagePath probes for yarn 2 and later.
BerryProbeOrder == <<NodeModules, YarnCache, YarnUnplugged>>

\* fs.pathExists on <top>/<packageName> for the tops in order, up to the first
\* that exists: the path found (Undefined when none) and the paths probed.
RECURSIVE ProbeInOrder(_, _, _)
ProbeInOrder(tops, packageName, dp) ==
  IF tops = <<>> THEN [found |-> Undefined, probes |-> <<>>]
  ELSE IF <<Head(tops), packageName>> \in DOMAIN dp
  THEN [found |-> Some(<<Head(tops), packageName>>),
        probes |-> <<<<Head(tops), packageName>>>>]
  ELSE LET rest == ProbeInOrder(Tail(tops), packageName, dp)
       IN  [found |-> rest.found,
            probes |-> <<<<Head(tops), packageName>>>> \o rest.probes]

\* getPackagePath with what it did on the way: result is its return value
\* (Undefined for null), probes the package paths it gave to fs.pathExists,
\* in order, queried whether it ran "yarn info <name> --json".  yarnInfo is
\* what that command does when it is run: [ok |-> FALSE] when it throws, else
\* the data.location of its answer (Undefined when the answer has none).
getPackagePathTrace(packageName, pj, dp, yarnInfo) ==
  LET packageManager == detectPackageManager(pj)
      classic == ProbeInOrder(<<NodeModules>>, packageName, dp)
      berry == ProbeInOrder(BerryProbeOrder, packageName, dp)
      fallback == ProbeInOrder(<<NodeModules>>, packageName, dp)
      plain == ProbeInOrder(<<findNodeModulesPath(pj)>>, packageName, dp)
      done(result, probes, queried) ==
        [result |-> result, probes |-> probes, queried |-> queried]
  IN  IF packageManager.name = "yarn"
      THEN IF StartsWithOneDot(packageManager.version)
           THEN done(classic.found, classic.probes, FALSE)
           ELSE IF IsDefined(berry.found)
           THEN done(berry.found, berry.probes, FALSE)
           ELSE IF yarnInfo.ok
           THEN done(yarnInfo.location, berry.probes, TRUE)
           ELSE done(fallback.found, berry.probes \o fallback.probes, TRUE)
      ELSE done(plain.found, plain.probes, FALSE)

\* getPackagePath: Undefined for null.
getPackagePath(packageName, pj, dp, yarnInfo) ==
  getPackagePathTrace(packageName, pj, dp, yarnInfo).result

\* getPackageInfo: Undefined for null (no package.json at the path).
getPackageInfo(packagePath, dp) ==
  IF packagePath \in DOMAIN dp /\ IsDefined(dp[packagePath].manifest)
  THEN Some([name |-> dp[packagePath].manifest[1].name,
             version |-> dp[packagePath].manifest[1].version,
             path |-> packagePath])
  ELSE Undefined

(***************************************************************************)
(* Patch bodies.  A body is the sequence of its lines (split at '\n'); a   *)
(* line is [k, t, n, m]: k says how the line starts,                       *)
(*   "manual"     '# Manual patch for ...'                                 *)
(*   "createdBy"  '# Created by modern-patch-package'                      *)
(*   "diffgit"    'diff --git a/' followed by t                            *)
(*   "index0"     'index 0000000..0000000 100644'                          *)
(*   "indexHash"  'index <hash>..<hash> 100644'                            *)
(*   "minus3"     '--- a/...'        "plus3"  '+++ b/...'                  *)
(*   "hunk"       '@@ -1,n +1,m @@'                                        *)
(*   "ctx"        ' ' followed by t  "add"    '+' followed by t            *)
(*   "del"        '-' followed by t                                        *)
(*   "blank"      the empty line     "other"  any other text               *)
(* and t is the text after that start.  The lines of the dependency's own  *)
(* files hold none of the marker phrases.                                  *)
(***************************************************************************)
Line(k, t) == [k |-> k, t |-> t, n |-> 0, m |-> 0]

HunkLine(n, m) == [k |-> "hunk", t |-> <<>>, n |-> n, m |-> m]

\* patchContent.includes(phrase), for the four phrases applyPatch tests.
Includes(body, k) == \E i \in 1..Len(body) : body[i].k = k

\* line.startsWith(prefix), for the five prefixes applyCustomPatch tests; a
\* line of three plus or minus signs starts with one.
startsWith(line, prefix) ==
  CASE prefix = "diff --git" -> line.k = "diffgit"
    [] prefix = "@@" -> line.k = "hunk"
    [] prefix = " " -> line.k = "ctx"
    [] prefix = "+" -> line.k \in {"add", "plus3"}
    [] prefix = "-" -> line.k \in {"del", "minus3"}

\* line.substring(1) of a line that starts with ' ', '+' or '-'.
Substring1(line) ==
  IF line.k = "plus3" THEN <<"+", "+">> \o line.t
  ELSE IF line.k = "minus3" THEN <<"-", "-">> \o line.t
  ELSE line.t

\* line.match(/diff --git a\/([^\/]+)/): the first group, the longest run of
\* characters other than '/' after 'diff --git a/'; Undefined when it is empty.
RECURSIVE UpToSlash(_)
UpToSlash(t) ==
  IF t = <<>> \/ Head(t) = "/" THEN <<>> ELSE <<Head(t)>> \o UpToSlash(Tail(t))

DiffHeaderName(line) ==
  IF UpToSlash(line.t) = <<>> THEN Undefined ELSE Some(UpToSlash(line.t))

\* A variant whose body lacks the second marker phrase.
ManualPatchContentOnePhrase(packagePath, version) ==
  <<Line("manual", packagePath[2] \o <<"@">> \o version),
    Line("other", <<>>),
    Line("blank", <<>>)>>

\* The body createManualPatch writes.
ManualPatchContent(packagePath, version) ==
  <<Line("manual", packagePath[2] \o <<"@">> \o version),
    Line("createdBy", <<>>),
    Line("other", <<>>),
    Line("blank", <<>>)>>

(***************************************************************************)
(* The structural diff of createPatchFromRegistry.  The content of a file  *)
(* is the sequence of its lines, content.split('\n').                      *)
(***************************************************************************)
\* lines[i] || ''  (i counts from 1 here)
LineOrEmpty(lines, i) == IF i <= Len(lines) THEN lines[i] ELSE <<>>

Max(a, b) == IF a >= b THEN a ELSE b

\* The body lines pushed for line i of one differing file.
DiffLine(originalLines, modifiedLines, i) ==
  LET originalLine == LineOrEmpty(originalLines, i)
      modifiedLine == LineOrEmpty(modifiedLines, i)
  IN  IF originalLine # modifiedLine
      THEN (IF originalLine # <<>> THEN <<Line("del", originalLine)>> ELSE <<>>)
           \o (IF modifiedLine # <<>> THEN <<Line("add", modifiedLine)>> ELSE <<>>)
      ELSE <<Line("ctx", originalLine)>>

RECURSIVE DiffLinesFrom(_, _, _)
DiffLinesFrom(originalLines, modifiedLines, i) ==
  IF i > Max(Len(originalLines), Len(modifiedLines)) THEN <<>>
  ELSE DiffLine(originalLines, modifiedLines, i)
       \o DiffLinesFrom(originalLines, modifiedLines, i + 1)

\* What is pushed for one common file: nothing when the contents are equal.
DiffFile(originalLines, modifiedLines) ==
  IF originalLines = modifiedLines THEN <<>>
  ELSE <<HunkLine(Len(originalLines), Len(modifiedLines))>>
       \o DiffLinesFrom(originalLines, modifiedLines, 1)

\* The four header lines pushed before the files are compared.
DiffHeader(packageName) ==
  <<Line("diffgit", packageName \o <<" ", "b", "/">> \o packageName),
    Line("index0", <<>>),
    Line("minus3", <<" ", "a", "/">> \o packageName),
    Line("plus3", <<" ", "b", "/">> \o packageName)>>

(***************************************************************************)
(* applyPatch, applyCustomPatch and reversePatch.                          *)
(* The host patch utility is outside the program: git[f] says how "git     *)
(* apply" answers for artifact f.                                          *)
(***************************************************************************)
\* "ok": the first attempt succeeds; "rejects": it fails and the attempt with
\* --reject succeeds; "fails": both fail.
GitAnswers == {"ok", "rejects", "fails"}

FirstSucceeds(answer) == answer = "ok"

RetrySucceeds(answer) == answer # "fails"

CmdApply == "git apply --ignore-whitespace"

CmdApplyReject == "git apply --ignore-whitespace --reject"

CmdReverse == "git apply --reverse --ignore-whitespace"

\* packageJson.main || 'index.js'
MainFileOf(manifest) ==
  IF IsDefined(manifest.main) /\ manifest.main[1] # "" THEN manifest.main[1]
  ELSE "index.js"

\* The end of a hunk in applyCustomPatch: the collected lines are written over
\* the entry point of the package the header named, when all of it is found.
FlushHunk(st, pj, yarnInfo) ==
  LET packagePath == getPackagePath(st.currentFile, pj, st.dp, yarnInfo)
      path == packagePath[1]
      mainFile == MainFileOf(st.dp[path].manifest[1])
      lookups == IF st.currentFile # <<>> /\ st.fileContent # <<>>
                 THEN Append(st.lookups, st.currentFile)
                 ELSE st.lookups
  IN  IF /\ st.currentFile # <<>>
         /\ st.fileContent # <<>>
         /\ IsDefined(packagePath)
         /\ path \in DOMAIN st.dp
         /\ IsDefined(st.dp[path].manifest)
         /\ mainFile \in DOMAIN st.dp[path].files
      THEN [st EXCEPT !.inHunk = FALSE,
                      !.lookups = lookups,
                      !.dp = [st.dp EXCEPT ![path].files[mainFile] = st.fileContent],
                      !.writes = Append(st.writes,
                                        [path |-> path, file |-> mainFile,
                                         content |-> st.fileContent])]
      ELSE [st EXCEPT !.inHunk = FALSE, !.lookups = lookups]

\* One turn of the loop over the lines of applyCustomPatch.
CustomPatchLine(st, line, pj, yarnInfo) ==
  IF startsWith(line, "diff --git")
  THEN IF IsDefined(DiffHeaderName(line))
       THEN [st EXCEPT !.currentFile = DiffHeaderName(line)[1],
                       !.headers = Append(st.headers, DiffHeaderName(line)[1])]
       ELSE st
  ELSE IF startsWith(line, "@@")
  THEN [st EXCEPT !.inHunk = TRUE, !.fileContent = <<>>]
  ELSE IF st.inHunk /\ startsWith(line, " ")
  THEN [st EXCEPT !.fileContent = Append(st.fileContent, Substring1(line))]
  ELSE IF st.inHunk /\ startsWith(line, "+")
  THEN [st EXCEPT !.fileContent = Append(st.fileContent, Substring1(line))]
  ELSE IF st.inHunk /\ startsWith(line, "-")
  THEN st
  ELSE IF st.inHunk
  THEN FlushHunk(st, pj, yarnInfo)
  ELSE st

RECURSIVE CustomPatchLines(_, _, _, _)
CustomPatchLines(st, lines, pj, yarnInfo) ==
  IF lines = <<>> THEN st
  ELSE CustomPatchLines(CustomPatchLine(st, Head(lines), pj, yarnInfo),
                        Tail(lines), pj, yarnInfo)

\* applyCustomPatch: the dependencies and the files written afterwards, the
\* names it took from the diff headers (headers) and the names it gave to
\* getPackagePath (lookups).
applyCustomPatch(patchContent, pj, dp, yarnInfo) ==
  CustomPatchLines([currentFile |-> <<>>, inHunk |-> FALSE, fileContent |-> <<>>,
                    dp |-> dp, writes |-> <<>>, headers |-> <<>>,
                    lookups |-> <<>>],
                   patchContent, pj, yarnInfo)

\* A variant that looks for a marker phrase createManualPatch does not write.
isManualPatchOtherPhrase(patchContent) ==
  Includes(patchContent, "manualOld") /\ Includes(patchContent, "createdBy")

isManualPatch(patchContent) ==
  Includes(patchContent, "manual") /\ Includes(patchContent, "createdBy")

\* A variant that takes every body with a 'diff --git a/' line as structural.
isCustomPatchHeaderOnly(patchContent) == Includes(patchContent, "diffgit")

isCustomPatch(patchContent) ==
  Includes(patchContent, "diffgit") /\ Includes(patchContent, "index0")

\* What one call applyPatch(patchFile) did: how it ended ("skipped-manual",
\* "applied", "applied-with-rejections", or "failed" when it threw), the
\* commands it ran with their success, the files it wrote, the error it threw
\* (the failures its message names) and the dependencies afterwards.
Attempt(patchFile, outcome, cmds, writes, error, dp) ==
  [file |-> patchFile, outcome |-> outcome, cmds |-> cmds, writes |-> writes,
   error |-> error, dp |-> dp, headers |-> <<>>, lookups |-> <<>>]

\* The call that went through applyCustomPatch.
CustomAttempt(patchFile, done) ==
  [file |-> patchFile, outcome |-> "applied", cmds |-> <<>>,
   writes |-> done.writes, error |-> <<>>, dp |-> done.dp,
   headers |-> done.headers, lookups |-> done.lookups]

Cmd(command, ok) == [cmd |-> command, ok |-> ok]

\* A variant that runs the attempt with --reject whatever the first one did.
applyPatchAlwaysRetries(patchFile, patchContent, answer, pj, dp, yarnInfo) ==
  IF isManualPatch(patchContent)
  THEN Attempt(patchFile, "skipped-manual", <<>>, <<>>, <<>>, dp)
  ELSE IF isCustomPatch(patchContent)
  THEN LET done == applyCustomPatch(patchContent, pj, dp, yarnInfo)
       IN  CustomAttempt(patchFile, done)
  ELSE IF RetrySucceeds(answer)
  THEN Attempt(patchFile, "applied-with-rejections",
               <<Cmd(CmdApply, FirstSucceeds(answer)), Cmd(CmdApplyReject, TRUE)>>,
               <<>>, <<>>, dp)
  ELSE Attempt(patchFile, "failed",
               <<Cmd(CmdApply, FALSE), Cmd(CmdApplyReject, FALSE)>>, <<>>,
               <<CmdApply, CmdApplyReject>>, dp)

applyPatch(patchFile, patchContent, answer, pj, dp, yarnInfo) ==
  IF isManualPatch(patchContent)
  THEN Attempt(patchFile, "skipped-manual", <<>>, <<>>, <<>>, dp)
  ELSE IF isCustomPatch(patchContent)
  THEN LET done == applyCustomPatch(patchContent, pj, dp, yarnInfo)
       IN  CustomAttempt(patchFile, done)
  ELSE IF FirstSucceeds(answer)
  THEN Attempt(patchFile, "applied", <<Cmd(CmdApply, TRUE)>>, <<>>, <<>>, dp)
  ELSE IF RetrySucceeds(answer)
  THEN Attempt(patchFile, "applied-with-rejections",
               <<Cmd(CmdApply, FALSE), Cmd(CmdApplyReject, TRUE)>>, <<>>, <<>>, dp)
  ELSE Attempt(patchFile, "failed",
               <<Cmd(CmdApply, FALSE), Cmd(CmdApplyReject, FALSE)>>, <<>>,
               <<CmdApply, CmdApplyReject>>, dp)

\* reversePatch: answer is whether "git apply --reverse" succeeds.
reversePatch(patchFile, patchContent, answer, dp) ==
  IF isManualPatch(patchContent)
  THEN Attempt(patchFile, "skipped-manual", <<>>, <<>>, <<>>, dp)
  ELSE IF answer
  THEN Attempt(patchFile, "applied", <<Cmd(CmdReverse, TRUE)>>, <<>>, <<>>, dp)
  ELSE Attempt(patchFile, "failed", <<Cmd(CmdReverse, FALSE)>>, <<>>,
               <<CmdReverse>>, dp)

(***************************************************************************)
(* getPatchFiles, and the loops of applyPatches and reversePatches.        *)
(***************************************************************************)
\* glob(<patchDir>/*.patch): the entries that end in .patch, in the order the
\* directory enumeration yields them.
RECURSIVE getPatchFiles(_)
getPatchFiles(entries) ==
  IF entries = <<>> THEN <<>>
  ELSE (IF Head(entries) # <<>> /\ Head(entries)[Len(Head(entries))] = DotPatch
        THEN <<Head(entries)>>
        ELSE <<>>) \o getPatchFiles(Tail(entries))

\* One turn of the for loop: try { applyPatch / reversePatch; push } catch
\* { errors.push }.
LoopTurn(acc, attempt) ==
  [attempts |-> Append(acc.attempts,
                       [file |-> attempt.file, outcome |-> attempt.outcome,
                        cmds |-> attempt.cmds, writes |-> attempt.writes,
                        headers |-> attempt.headers,
                        lookups |-> attempt.lookups]),
   patchesApplied |-> IF attempt.error = <<>>
                      THEN Append(acc.patchesApplied, attempt.file)
                      ELSE acc.patchesApplied,
   errors |-> IF attempt.error = <<>>
              THEN acc.errors
              ELSE Append(acc.errors, [file |-> attempt.file,
                                       failures |-> attempt.error]),
   dp |-> attempt.dp]

\* A variant whose loop ends at the first artifact that fails.
RECURSIVE ApplyLoopStopsAtFailure(_, _, _, _, _, _)
ApplyLoopStopsAtFailure(patchFiles, bodies, git, pj, yarnInfo, acc) ==
  IF patchFiles = <<>> \/ acc.errors # <<>> THEN acc
  ELSE ApplyLoopStopsAtFailure(
         Tail(patchFiles), bodies, git, pj, yarnInfo,
         LoopTurn(acc, applyPatch(Head(patchFiles), bodies[Head(patchFiles)],
                                  git[Head(patchFiles)], pj, acc.dp, yarnInfo)))

RECURSIVE ApplyLoop(_, _, _, _, _, _)
ApplyLoop(patchFiles, bodies, git, pj, yarnInfo, acc) ==
  IF patchFiles = <<>> THEN acc
  ELSE ApplyLoop(Tail(patchFiles), bodies, git, pj, yarnInfo,
                 LoopTurn(acc, applyPatch(Head(patchFiles), bodies[Head(patchFiles)],
                                          git[Head(patchFiles)], pj, acc.dp,
                                          yarnInfo)))

RECURSIVE ReverseLoop(_, _, _, _)
ReverseLoop(patchFiles, bodies, git, acc) ==
  IF patchFiles = <<>> THEN acc
  ELSE ReverseLoop(Tail(patchFiles), bodies, git,
                   LoopTurn(acc, reversePatch(Head(patchFiles),
                                              bodies[Head(patchFiles)],
                                              git[Head(patchFiles)], acc.dp)))

\* A variant that reports success whatever was collected.
BatchSuccessAlways(errors) == TRUE

\* result.success = result.errors.length === 0
BatchSuccess(errors) == Len(errors) = 0

EmptyLoop(dp) == [attempts |-> <<>>, patchesApplied |-> <<>>, errors |-> <<>>,
                  dp |-> dp]

\* The PatchResult, with what the run did: the names getPatchFiles returned,
\* the attempts in order and the dependencies afterwards.
RunOf(patchFiles, loop) ==
  [ran |-> TRUE,
   patchFiles |-> patchFiles,
   attempts |-> loop.attempts,
   success |-> IF patchFiles = <<>> THEN TRUE ELSE BatchSuccess(loop.errors),
   patchesCreated |-> <<>>,
   patchesApplied |-> loop.patchesApplied,
   errors |-> loop.errors,
   dp |-> loop.dp]

applyPatches(entries, bodies, git, pj, dp, yarnInfo) ==
  LET patchFiles == getPatchFiles(entries)
  IN  RunOf(patchFiles,
            ApplyLoop(patchFiles, bodies, git, pj, yarnInfo, EmptyLoop(dp)))

\* A variant that walks the artifacts in the order of applyPatches.
reversePatchesSameOrder(entries, bodies, git, dp) ==
  LET patchFiles == getPatchFiles(entries)
  IN  RunOf(patchFiles, ReverseLoop(patchFiles, bodies, git, EmptyLoop(dp)))

reversePatches(entries, bodies, git, dp) ==
  LET patchFiles == getPatchFiles(entries)
      reversedPatches == Reverse(patchFiles)
  IN  RunOf(patchFiles, ReverseLoop(reversedPatches, bodies, git, EmptyLoop(dp)))

(***************************************************************************)
(* createPatch, createManualPatch and createPatchFromRegistry.             *)
(* Outside the program, and given to it as env: whether the project is a   *)
(* git repository, whether git lists the package and has a diff for it,    *)
(* how "npm pack" and "tar" end, and the answer of "yarn info".            *)
(***************************************************************************)
\* The files of the published packages, by <<name, version>>.
RelPaths == <<"index.js", "lib.js", "package.json">>

P == <<"p">>

Q == <<"q">>

Registry ==
  [nv \in {<<<<"a">>, <<"1">>>>, <<<<"b">>, <<"1">>>>} |->
     IF nv[1] = <<"a">>
     THEN [f \in {"index.js", "lib.js"} |-> IF f = "index.js" THEN <<P, Q>> ELSE <<P>>]
     ELSE [f \in {"index.js"} |-> <<Q>>]]

\* The output of "git diff HEAD~1 -- <packagePath>" when it has one.
GitDiffOutput(packagePath) ==
  <<Line("diffgit", <<"n", "/">> \o packagePath[2] \o <<"/", "i">>),
    Line("indexHash", <<>>),
    Line("minus3", <<" ", "a", "/", "n", "/">> \o packagePath[2]),
    Line("plus3", <<" ", "b", "/", "n", "/">> \o packagePath[2]),
    HunkLine(1, 1),
    Line("del", P),
    Line("add", Q),
    Line("blank", <<>>)>>

\* f overridden by g where g is defined.
Merge(f, g) ==
  [x \in DOMAIN f \cup DOMAIN g |-> IF x \in DOMAIN g THEN g[x] ELSE f[x]]

EmptyFiles == [x \in {} |-> <<>>]

\* The content of a package.json, as far as it is compared: one line that
\* differs between two packages exactly when their name or version does.
ManifestContent(name, version) == <<name \o <<"@">> \o version>>

\* What "tar -xzf" of the tarball of name@version puts into extracted/package.
Published(nv) ==
  Merge(Registry[nv], [f \in {"package.json"} |-> ManifestContent(nv[1], nv[2])])

\* The files getAllFiles(packagePath) finds, with their contents.
InstalledTree(dp, packagePath) ==
  Merge(dp[packagePath].files,
        IF IsDefined(dp[packagePath].manifest)
        THEN [f \in {"package.json"} |->
                ManifestContent(dp[packagePath].manifest[1].name,
                                dp[packagePath].manifest[1].version)]
        ELSE EmptyFiles)

\* The lines pushed for the common files, in the order they are found.
RECURSIVE DiffCommonFiles(_, _, _)
DiffCommonFiles(paths, original, modified) ==
  IF paths = <<>> THEN <<>>
  ELSE (IF Head(paths) \in DOMAIN original /\ Head(paths) \in DOMAIN modified
        THEN DiffFile(original[Head(paths)], modified[Head(paths)])
        ELSE <<>>) \o DiffCommonFiles(Tail(paths), original, modified)

\* A variant that unpacks the tarball over the installed dependency.
TarExtractOverPackage(tarball, extracted, dp, packagePath) ==
  [extracted |-> Merge(extracted, Published(tarball)),
   dp |-> [dp EXCEPT ![packagePath].files = Merge(@, Registry[tarball])]]

\* tar -xzf <tarballPath> -C <extractPath>, with extractPath inside
\* temp-original: the files of the tarball are written over what the
\* extracted tree holds, and the dependencies are as before.
TarExtract(tarball, extracted, dp, packagePath) ==
  [extracted |-> Merge(extracted, Published(tarball)), dp |-> dp]

\* A variant that also counts a file only one of the trees holds.
HasDifferencesAnyFile(paths, original, modified) ==
  \E i \in 1..Len(paths) :
    \/ (paths[i] \in DOMAIN original) # (paths[i] \in DOMAIN modified)
    \/ /\ paths[i] \in DOMAIN original
       /\ paths[i] \in DOMAIN modified
       /\ original[paths[i]] # modified[paths[i]]

\* hasDifferences after the loop over commonFiles: some file found in both
\* trees has originalContent !== modifiedContent.
HasDifferences(paths, original, modified) ==
  \E i \in 1..Len(paths) :
    /\ paths[i] \in DOMAIN original
    /\ paths[i] \in DOMAIN modified
    /\ original[paths[i]] # modified[paths[i]]

\* createPatchFromRegistry: [ok, body, temp, route, baseline, dp]; ok is its
\* return value, body what it wrote to patchFilePath when ok, temp the
\* temp-original directory afterwards (Undefined when removed), route the
\* return it left by, baseline the tarball it chose and the two trees it
\* compared (Undefined when it did not get that far), dp the dependencies
\* afterwards.
createPatchFromRegistry(packageInfo, packagePath, dp, temp, env) ==
  LET ensured == IF IsDefined(temp) THEN temp[1]
                 ELSE [tarballs |-> <<>>, extracted |-> EmptyFiles]
      packed == <<packageInfo.name, packageInfo.version>>
      known == \E i \in 1..Len(ensured.tarballs) : ensured.tarballs[i] = packed
      tarballs == IF env.pack # "ok" \/ known THEN ensured.tarballs
                  ELSE IF env.enumeratedFirst THEN <<packed>> \o ensured.tarballs
                  ELSE Append(ensured.tarballs, packed)
      tarball == tarballs[1]
      untarred == TarExtract(tarball, ensured.extracted, dp, packagePath)
      extracted == untarred.extracted
      modified == InstalledTree(untarred.dp, packagePath)
      hunks == DiffCommonFiles(RelPaths, extracted, modified)
      kept == Some([tarballs |-> tarballs, extracted |-> extracted])
      compared == Some([tarball |-> tarball, extracted |-> extracted,
                        modified |-> modified])
      gaveUp(route) == [ok |-> FALSE, body |-> <<>>, temp |-> Undefined,
                        route |-> route, baseline |-> Undefined, dp |-> dp]
  IN  IF env.pack = "fail" \/ packed \notin DOMAIN Registry
      THEN gaveUp("pack-failed")
      ELSE IF tarballs = <<>>
      THEN gaveUp("no-tarball")
      ELSE IF ~env.extract
      THEN gaveUp("extract-failed")
      ELSE IF HasDifferences(RelPaths, extracted, modified)
      THEN [ok |-> TRUE, body |-> DiffHeader(packageInfo.name) \o hunks,
            temp |-> kept, route |-> "registry-diff", baseline |-> compared,
            dp |-> untarred.dp]
      ELSE [ok |-> FALSE, body |-> <<>>, temp |-> kept,
            route |-> "no-difference", baseline |-> compared,
            dp |-> untarred.dp]

\* createManualPatch: the body written to patchFilePath, the temp-original
\* directory and the dependencies afterwards, and the route and baseline of
\* the registry attempt.
createManualPatch(packagePath, dp, temp, env) ==
  LET packageInfo == getPackageInfo(packagePath, dp)
      fromRegistry == createPatchFromRegistry(packageInfo[1], packagePath, dp,
                                              temp, env)
      version == IF IsDefined(packageInfo) THEN packageInfo[1].version
                 ELSE Unknown
  IN  IF IsDefined(packageInfo) /\ fromRegistry.ok
      THEN [body |-> fromRegistry.body, temp |-> fromRegistry.temp,
            route |-> fromRegistry.route, baseline |-> fromRegistry.baseline,
            dp |-> fromRegistry.dp]
      ELSE IF IsDefined(packageInfo)
      THEN [body |-> ManualPatchContent(packagePath, version),
            temp |-> fromRegistry.temp, route |-> fromRegistry.route,
            baseline |-> fromRegistry.baseline, dp |-> fromRegistry.dp]
      ELSE [body |-> ManualPatchContent(packagePath, version), temp |-> temp,
            route |-> "no-manifest", baseline |-> Undefined, dp |-> dp]

\* this.options.append ? 1 : undefined
AppendSequence(append) ==
  IF IsDefined(append) /\ append[1] # <<>> THEN Some(1) ELSE Undefined

\* A variant whose result reports success although nothing was created.
CreateFailedAsSuccess(error, temp, route, baseline, dp) ==
  [success |-> TRUE, patchesCreated |-> <<>>, patchesApplied |-> <<>>,
   errors |-> <<error>>, written |-> Undefined, temp |-> temp, route |-> route,
   baseline |-> baseline, dp |-> dp]

\* What createPatch returns after result.errors.push(error): the result as it
\* was initialised, with that one error.
CreateFailed(error, temp, route, baseline, dp) ==
  [success |-> FALSE, patchesCreated |-> <<>>, patchesApplied |-> <<>>,
   errors |-> <<error>>, written |-> Undefined, temp |-> temp, route |-> route,
   baseline |-> baseline, dp |-> dp]

\* createPatch: the PatchResult (success, patchesCreated, patchesApplied,
\* errors), the file written (Undefined when none), the temp-original
\* directory and the dependencies afterwards, the route taken and the
\* baseline compared.
\* env.writable is whether fs.writeFile(patchFilePath, ...) succeeds: when it
\* throws, createPatchFromRegistry catches it and returns false, the write of
\* the placeholder throws as well, and the catch of createPatch records it.
createPatch(packageName, append, pj, dp, temp, env) ==
  LET packagePath == getPackagePath(packageName, pj, dp, env.yarnInfo)
      packageInfo == getPackageInfo(packagePath[1], dp)
      patchFileName == generatePatchFileName(packageInfo[1].name,
                                             packageInfo[1].version,
                                             AppendSequence(append), append)
      manual == createManualPatch(packagePath[1], dp, temp, env)
      created(body, tempAfter, route, baseline, dpAfter) ==
        [success |-> TRUE, patchesCreated |-> <<patchFileName>>,
         patchesApplied |-> <<>>, errors |-> <<>>,
         written |-> Some([name |-> patchFileName, body |-> body]),
         temp |-> tempAfter, route |-> route, baseline |-> baseline,
         dp |-> dpAfter]
  IN  IF ~IsDefined(packagePath)
      THEN CreateFailed("not found in node_modules", temp, "not-found",
                        Undefined, dp)
      ELSE IF ~IsDefined(packageInfo)
      THEN CreateFailed("Could not read package.json", temp, "no-manifest",
                        Undefined, dp)
      ELSE IF env.isGitRepo /\ env.hasOriginal /\ env.gitDiff
      THEN IF env.writable
           THEN created(GitDiffOutput(packagePath[1]), temp, "git-diff",
                        Undefined, dp)
           ELSE CreateFailed("Failed to create patch", temp, "write-failed",
                             Undefined, dp)
      ELSE IF env.writable
      THEN created(manual.body, manual.temp, manual.route, manual.baseline,
                   manual.dp)
      ELSE CreateFailed("Failed to create patch", manual.temp, "write-failed",
                        manual.baseline, manual.dp)

(***************************************************************************)
(* The file-name round trip: generatePatchFileName, then the pattern.      *)
(* The fields are those of the grammar: a description comes only with a    *)
(* sequence number and is not empty; name and version hold no '+'.         *)
(***************************************************************************)
PackageNames == {<<"a">>, <<"b">>, <<"a", "b">>}

PackageVersions == {<<"1">>, <<"2">>, <<"1", ".", "2">>}

Descriptions == {<<"x">>, <<"x", "-", "y">>, <<"x", "+">>}

Sequences == {Undefined} \cup {Some(n) : n \in 0..MaxSeq}

NameFields ==
  {f \in [packageName : PackageNames, packageVersion : PackageVersions,
          sequence : Sequences,
          description : {Undefined} \cup {Some(d) : d \in Descriptions}] :
     IsDefined(f.description) => IsDefined(f.sequence)}

NoName == [phase |-> "off", fields |-> Undefined, fileName |-> Undefined,
           decoded |-> Undefined]

NoCatalogue == [phase |-> "off", patchFiles |-> <<>>, listed |-> <<>>]

NoDiff == [phase |-> "off", original |-> <<>>, modified |-> <<>>, body |-> <<>>]

NoResolve == [phase |-> "off"]

NoFilter == [phase |-> "off"]

\* df, rp and sf in a specification that does not use them.
TrialsOff == df = NoDiff /\ rp = NoResolve /\ sf = NoFilter

\* The lifecycle variables of a specification that does not use them.
LifeOff ==
  /\ proj = [lockFiles |-> {}, version |-> <<>>, dirs |-> {}]
  /\ deps = <<>>
  /\ patchDir = <<>>
  /\ bodyOf = <<>>
  /\ tempDir = Undefined
  /\ applyRun = [ran |-> FALSE]
  /\ reverseRun = [ran |-> FALSE]
  /\ createLog = <<>>

InitName ==
  /\ LifeOff
  /\ TrialsOff
  /\ \E f \in NameFields :
       nm = [phase |-> "fields", fields |-> Some(f), fileName |-> Undefined,
             decoded |-> Undefined]
  /\ cat = NoCatalogue

Encode ==
  /\ nm.phase = "fields"
  /\ nm' = [nm EXCEPT !.phase = "named",
                      !.fileName = Some(generatePatchFileName(
                          nm.fields[1].packageName, nm.fields[1].packageVersion,
                          nm.fields[1].sequence, nm.fields[1].description))]
  /\ UNCHANGED <<cat, trialVars, lifeVars>>

\* The fields of a PatchFile that the grammar carries.
GrammarFields(p) ==
  [packageName |-> p.packageName, packageVersion |-> p.packageVersion,
   sequence |-> p.sequence, description |-> p.description]

Decode ==
  /\ nm.phase = "named"
  /\ nm' = [nm EXCEPT !.phase = "decoded",
                      !.decoded = IF matchFileName(nm.fileName[1]) = NoMatch
                                  THEN Undefined
                                  ELSE Some(GrammarFields(PatchFileOf(nm.fileName[1])))]
  /\ UNCHANGED <<cat, trialVars, lifeVars>>

NextName == Encode \/ Decode

SpecName == InitName /\ [][NextName]_vars

\* C3: decoding the name generatePatchFileName produced gives back the
\* package name, the version, the sequence number and the description.
C3_RoundTrip == nm.phase = "decoded" => nm.decoded = nm.fields

(***************************************************************************)
(* generatePatchFileName alone, on any arguments its signature admits: a   *)
(* description may come without a sequence number, and the sequence        *)
(* numbers are those at which the count of digits changes, up to 999.      *)
(***************************************************************************)
EncodeSequences ==
  {Undefined} \cup {Some(n) : n \in (0..MaxSeq) \cup {9, 10, 99, 100, 999}}

EncodeFields ==
  [packageName : PackageNames, packageVersion : PackageVersions,
   sequence : EncodeSequences,
   description : {Undefined} \cup {Some(d) : d \in Descriptions}]

InitEncode ==
  /\ LifeOff
  /\ TrialsOff
  /\ \E f \in EncodeFields :
       nm = [phase |-> "fields", fields |-> Some(f), fileName |-> Undefined,
             decoded |-> Undefined]
  /\ cat = NoCatalogue

NextEncode == Encode

SpecEncode == InitEncode /\ [][NextEncode]_vars

\* The three decimal digits of n, for 0 <= n <= 999.
ThreeDigits(n) ==
  <<Digits[(n \div 100) + 1], Digits[((n \div 10) % 10) + 1], Digits[(n % 10) + 1]>>

\* C23: the name is <name>+<version>.patch without a sequence number (a
\* description is then ignored), <name>+<version>+NNN.patch with a sequence
\* number and no description, <name>+<version>+NNN+<desc>.patch with both;
\* NNN is the sequence number in exactly three digits.
C23_EncodedName ==
  nm.phase = "named" =>
    LET f == nm.fields[1]
        base == f.packageName \o <<Plus>> \o f.packageVersion
    IN  nm.fileName[1] =
          (IF ~IsDefined(f.sequence) THEN base
           ELSE IF ~IsDefined(f.description)
           THEN base \o <<Plus>> \o ThreeDigits(f.sequence[1])
           ELSE base \o <<Plus>> \o ThreeDigits(f.sequence[1])
                  \o <<Plus>> \o f.description[1])
          \o <<DotPatch>>

\* The name for sequence number 9 with a description: a+1+009+x.patch.
C23_Witness ==
  /\ nm.phase = "named"
  /\ nm.fields[1].sequence = Some(9)
  /\ nm.fields[1].description = Some(<<"x">>)
  /\ nm.fileName[1] = <<"a", "+", "1", "+", "0", "0", "9", "+", "x", DotPatch>>

(***************************************************************************)
(* The catalogue: listPatches over a directory enumeration.                *)
(***************************************************************************)
\* a+2.patch, a+1.patch, b+1.patch: no sequence number.
\* a+1+000+x+.patch, a+1+001+x+.patch: decoded with sequence 0 and 1.
\* a.patch: matches *.patch and not the grammar.
CatalogueNames ==
  {<<"a", "+", "2", DotPatch>>,
   <<"a", "+", "1", DotPatch>>,
   <<"b", "+", "1", DotPatch>>,
   <<"a", "+", "1", "+", "0", "0", "0", "+", "x", "+", DotPatch>>,
   <<"a", "+", "1", "+", "0", "0", "1", "+", "x", "+", DotPatch>>,
   <<"a", DotPatch>>}

\* The sequences of at most n distinct elements of S: the orders in which a
\* directory enumeration can yield the names of a directory.
RECURSIVE Enumerations(_, _)
Enumerations(S, n) ==
  IF n = 0 THEN {<<>>}
  ELSE LET shorter == Enumerations(S, n - 1)
           longest == {t \in shorter : Len(t) = n - 1}
           fresh == {p \in longest \X S : \A i \in 1..Len(p[1]) : p[1][i] # p[2]}
       IN  shorter \cup {Append(p[1], p[2]) : p \in fresh}

InitCatalogue ==
  /\ LifeOff
  /\ TrialsOff
  /\ nm = NoName
  /\ \E e \in Enumerations(CatalogueNames, MaxFiles) :
       cat = [phase |-> "enumerated", patchFiles |-> e, listed |-> <<>>]

ListPatches ==
  /\ cat.phase = "enumerated"
  /\ cat' = [cat EXCEPT !.phase = "listed", !.listed = listPatches(cat.patchFiles)]
  /\ UNCHANGED <<nm, trialVars, lifeVars>>

NextCatalogue == ListPatches

SpecCatalogue == InitCatalogue /\ [][NextCatalogue]_vars

\* The key the catalogue is ordered by: name, then sequence (absent as 0),
\* then version.
KeyLess(p, q) ==
  \/ localeCompare(p.packageName, q.packageName) < 0
  \/ /\ p.packageName = q.packageName
     /\ \/ SeqOrZero(p) < SeqOrZero(q)
        \/ /\ SeqOrZero(p) = SeqOrZero(q)
           /\ localeCompare(p.packageVersion, q.packageVersion) < 0

\* C4: the listing is ordered by name, then by sequence number with an absent
\* one as 0, then by version, whatever the order of the enumeration.
C4_TotalOrder ==
  cat.phase = "listed" =>
    \A i, j \in 1..Len(cat.listed) :
      i < j => ~KeyLess(cat.listed[j], cat.listed[i])

(***************************************************************************)
(* shouldIncludeFile alone: a path, an include list and an exclude list    *)
(* (absent, empty, or up to MaxPatterns patterns) and the caseSensitive    *)
(* flag.  The paths are a.j, A.J, ab.j, axj and b.t; the patterns *.j,     *)
(* a.j, a* and ab?.j.                                                      *)
(***************************************************************************)
FilterPaths ==
  {<<"a", ".", "j">>, <<"A", ".", "J">>, <<"a", "b", ".", "j">>,
   <<"a", "x", "j">>, <<"b", ".", "t">>}

FilterPatterns ==
  {<<"*", ".", "j">>, <<"a", ".", "j">>, <<"a", "*">>,
   <<"a", "b", "?", ".", "j">>}

PatternLists ==
  {Undefined} \cup {Some(l) : l \in Enumerations(FilterPatterns, MaxPatterns)}

InitFilter ==
  /\ LifeOff
  /\ nm = NoName
  /\ cat = NoCatalogue
  /\ df = NoDiff
  /\ rp = NoResolve
  /\ \E filePath \in FilterPaths, include \in PatternLists,
        exclude \in PatternLists, caseSensitive \in BOOLEAN :
       sf = [phase |-> "asked", filePath |-> filePath, include |-> include,
             exclude |-> exclude, caseSensitive |-> caseSensitive]

\* shouldIncludeFile(filePath, include, exclude, caseSensitive)
ShouldIncludeFile ==
  /\ sf.phase = "asked"
  /\ sf' = [phase |-> "answered", filePath |-> sf.filePath,
            include |-> sf.include, exclude |-> sf.exclude,
            caseSensitive |-> sf.caseSensitive,
            result |-> shouldIncludeFile(sf.filePath, sf.include, sf.exclude,
                                         sf.caseSensitive)]
  /\ UNCHANGED <<nm, cat, df, rp, lifeVars>>

NextFilter == ShouldIncludeFile

SpecFilter == InitFilter /\ [][NextFilter]_vars

\* The path matches the pattern: '*' stands for any run of characters, every
\* other character for itself, letters compared without their case unless
\* caseSensitive.
RECURSIVE GlobMatches(_, _, _)
GlobMatches(pattern, filePath, caseSensitive) ==
  IF pattern = <<>> THEN filePath = <<>>
  ELSE IF Head(pattern) = "*"
  THEN \E k \in 0..Len(filePath) :
         GlobMatches(Tail(pattern), SubSeq(filePath, k + 1, Len(filePath)),
                     caseSensitive)
  ELSE /\ filePath # <<>>
       /\ SameChar(Head(filePath), Head(pattern), ~caseSensitive)
       /\ GlobMatches(Tail(pattern), Tail(filePath), caseSensitive)

MatchesSome(patterns, filePath, caseSensitive) ==
  /\ IsDefined(patterns)
  /\ \E i \in 1..Len(patterns[1]) :
       GlobMatches(patterns[1][i], filePath, caseSensitive)

\* C25: shouldIncludeFile returns true exactly when the path matches no
\* exclude pattern and the include list is absent, empty, or holds a pattern
\* the path matches; else it returns false.
C25_ShouldIncludeFile ==
  sf.phase = "answered" =>
    sf.result =
      IF /\ ~MatchesSome(sf.exclude, sf.filePath, sf.caseSensitive)
         /\ \/ ~IsDefined(sf.include)
            \/ sf.include[1] = <<>>
            \/ MatchesSome(sf.include, sf.filePath, sf.caseSensitive)
      THEN "true"
      ELSE "false"

(***************************************************************************)
(* applyPatches and reversePatches over a patch directory.                 *)
(* The directory holds any of these artifacts, enumerated in any order:    *)
(*   a+1+001+x.patch, a+1+002+y.patch  conventional unified diffs,         *)
(*   b+1.patch   a placeholder,                                            *)
(*   a+1.patch   the structural diff create writes for a@1 whose index.js  *)
(*               was changed from p,q to q,q,                              *)
(*   a.patch     a structural diff written by hand: its header names the   *)
(*               file a/index.js and a blank line ends its hunk.           *)
(* b+1+001+x.patch, which only the directories of SpecModes hold, is a     *)
(* placeholder with a structural diff pasted under it.                     *)
(***************************************************************************)
A == <<"a">>

B == <<"b">>

V1 == <<"1">>

SeqFixA == <<"a", "+", "1", "+", "0", "0", "1", "+", "x", DotPatch>>

SeqFixB == <<"a", "+", "1", "+", "0", "0", "2", "+", "y", DotPatch>>

PlaceholderB == <<"b", "+", "1", DotPatch>>

StructuralA == <<"a", "+", "1", DotPatch>>

HandWrittenA == <<"a", DotPatch>>

MixedB == <<"b", "+", "1", "+", "0", "0", "1", "+", "x", DotPatch>>

ApplyNames == {SeqFixA, SeqFixB, PlaceholderB, StructuralA, HandWrittenA}

PathA == <<NodeModules, A>>

PathB == <<NodeModules, B>>

BodyFor(name) ==
  CASE name = PlaceholderB -> ManualPatchContent(PathB, V1)
    [] name = MixedB ->
         ManualPatchContent(PathB, V1) \o DiffHeader(A)
           \o DiffFile(<<P, Q>>, <<Q, Q>>) \o <<Line("blank", <<>>)>>
    [] name = StructuralA -> DiffHeader(A) \o DiffFile(<<P, Q>>, <<Q, Q>>)
    [] name = HandWrittenA ->
         <<Line("diffgit", <<"a", "/", "i", " ", "b", "/", "a", "/", "i">>),
           Line("index0", <<>>),
           HunkLine(2, 2),
           Line("del", P),
           Line("add", Q),
           Line("ctx", Q),
           Line("blank", <<>>)>>
    [] OTHER -> GitDiffOutput(PathA)

\* An npm project with a@1 installed as published.
NpmProject ==
  [lockFiles |-> {"package-lock.json"},
   version |-> [m \in {"yarn", "pnpm", "npm"} |-> Some(<<"9", ".", "0">>)],
   dirs |-> {NodeModules}]

Installed(name, version, files) ==
  [manifest |-> Some([name |-> name, version |-> version, main |-> Undefined]),
   files |-> files]

Range(f) == {f[x] : x \in DOMAIN f}

\* "yarn info" is run only for yarn: what it can answer.
YarnInfoAnswers(pj) ==
  IF detectPackageManager(pj).name = "yarn"
  THEN {[ok |-> FALSE, location |-> Undefined],
        [ok |-> TRUE, location |-> Undefined],
        [ok |-> TRUE, location |-> Some(PathA)]}
  ELSE {[ok |-> FALSE, location |-> Undefined]}

\* The answers of the patch utility for a directory: one for each artifact
\* that is handed to it ("ok" stands for the others, which never ask).
GitOracles(entries, bodies, answers, default, structuralAsks) ==
  LET asked == {f \in Range(entries) :
                  /\ ~isManualPatch(bodies[f])
                  /\ structuralAsks \/ ~isCustomPatch(bodies[f])}
  IN  {[f \in Range(entries) |-> IF f \in asked THEN g[f] ELSE default] :
         g \in [asked -> answers]}

\* What a run leaves in applyRun / reverseRun.
RunRecord(run) ==
  [ran |-> TRUE, patchFiles |-> run.patchFiles, attempts |-> run.attempts,
   success |-> run.success, patchesCreated |-> run.patchesCreated,
   patchesApplied |-> run.patchesApplied, errors |-> run.errors]

Init ==
  /\ nm = NoName
  /\ cat = NoCatalogue
  /\ TrialsOff
  /\ proj = NpmProject
  /\ deps = [path \in {PathA} |-> Installed(A, V1, Registry[<<A, V1>>])]
  /\ \E e \in Enumerations(ApplyNames, MaxDir) :
       /\ patchDir = e
       /\ bodyOf = [name \in Range(e) |-> BodyFor(name)]
  /\ tempDir = Undefined
  /\ applyRun = [ran |-> FALSE]
  /\ reverseRun = [ran |-> FALSE]
  /\ createLog = <<>>

ApplyPatches ==
  \E git \in GitOracles(patchDir, bodyOf, GitAnswers, "ok", FALSE),
     yarnInfo \in YarnInfoAnswers(proj) :
    LET run == applyPatches(patchDir, bodyOf, git, proj, deps, yarnInfo)
    IN  /\ applyRun' = RunRecord(run)
        /\ deps' = run.dp
        /\ UNCHANGED <<nm, cat, trialVars, proj, patchDir, bodyOf, tempDir, reverseRun,
                       createLog>>

ReversePatches ==
  \E git \in GitOracles(patchDir, bodyOf, BOOLEAN, TRUE, TRUE) :
    LET run == reversePatches(patchDir, bodyOf, git, deps)
    IN  /\ reverseRun' = RunRecord(run)
        /\ deps' = run.dp
        /\ UNCHANGED <<nm, cat, trialVars, proj, patchDir, bodyOf, tempDir, applyRun,
                       createLog>>

Next == ApplyPatches \/ ReversePatches

Spec == Init /\ [][Next]_vars

(***************************************************************************)
(* The command line (index.ts) over a patch directory: the apply           *)
(* command with its options --error-on-fail and --reverse, and the default *)
(* command, which is run when no command is named.  Each ends in           *)
(* process.exit with the code recorded here.                               *)
(***************************************************************************)
\* A variant that exits with 1 on every failure.
ExitCodeOfApplyStrict(success, errorOnFail) == IF success THEN 0 ELSE 1

\* The apply command: process.exit(0) on success, else
\* process.exit(options.errorOnFail ? 1 : 0).
ExitCodeOfApply(success, errorOnFail) ==
  IF success THEN 0 ELSE IF errorOnFail THEN 1 ELSE 0

\* The default command: process.exit(0) on success, else process.exit(1).
ExitCodeOfDefault(success) == IF success THEN 0 ELSE 1

\* What a command leaves: the run, the command line and the exit code.
CliRecord(run, command, errorOnFail, reverse, exitCode) ==
  [ran |-> TRUE, patchFiles |-> run.patchFiles, attempts |-> run.attempts,
   success |-> run.success, patchesCreated |-> run.patchesCreated,
   patchesApplied |-> run.patchesApplied, errors |-> run.errors,
   command |-> command, errorOnFail |-> errorOnFail, reverse |-> reverse,
   exitCode |-> exitCode]

\* modern-patch-package apply [--error-on-fail]
CliApply ==
  \E errorOnFail \in BOOLEAN,
     git \in GitOracles(patchDir, bodyOf, GitAnswers, "ok", FALSE),
     yarnInfo \in YarnInfoAnswers(proj) :
    LET run == applyPatches(patchDir, bodyOf, git, proj, deps, yarnInfo)
    IN  /\ applyRun' = CliRecord(run, "apply", errorOnFail, FALSE,
                                 ExitCodeOfApply(run.success, errorOnFail))
        /\ deps' = run.dp
        /\ UNCHANGED <<nm, cat, trialVars, proj, patchDir, bodyOf, tempDir, reverseRun,
                       createLog>>

\* modern-patch-package apply --reverse [--error-on-fail]
CliApplyReverse ==
  \E errorOnFail \in BOOLEAN,
     git \in GitOracles(patchDir, bodyOf, BOOLEAN, TRUE, TRUE) :
    LET run == reversePatches(patchDir, bodyOf, git, deps)
    IN  /\ reverseRun' = CliRecord(run, "apply", errorOnFail, TRUE,
                                   ExitCodeOfApply(run.success, errorOnFail))
        /\ deps' = run.dp
        /\ UNCHANGED <<nm, cat, trialVars, proj, patchDir, bodyOf, tempDir, applyRun,
                       createLog>>

\* modern-patch-package, with no command named
CliDefault ==
  \E git \in GitOracles(patchDir, bodyOf, GitAnswers, "ok", FALSE),
     yarnInfo \in YarnInfoAnswers(proj) :
    LET run == applyPatches(patchDir, bodyOf, git, proj, deps, yarnInfo)
    IN  /\ applyRun' = CliRecord(run, "default", FALSE, FALSE,
                                 ExitCodeOfDefault(run.success))
        /\ deps' = run.dp
        /\ UNCHANGED <<nm, cat, trialVars, proj, patchDir, bodyOf, tempDir, reverseRun,
                       createLog>>

\* The directories the commands are run on: two conventional diffs and a
\* placeholder, enumerated in any order.
CliNames == {SeqFixA, SeqFixB, PlaceholderB}

InitCli ==
  /\ nm = NoName
  /\ cat = NoCatalogue
  /\ TrialsOff
  /\ proj = NpmProject
  /\ deps = [path \in {PathA} |-> Installed(A, V1, Registry[<<A, V1>>])]
  /\ \E e \in Enumerations(CliNames, MaxDir) :
       /\ patchDir = e
       /\ bodyOf = [name \in Range(e) |-> BodyFor(name)]
  /\ tempDir = Undefined
  /\ applyRun = [ran |-> FALSE]
  /\ reverseRun = [ran |-> FALSE]
  /\ createLog = <<>>

NextCli == CliApply \/ CliApplyReverse \/ CliDefault

SpecCli == InitCli /\ [][NextCli]_vars

\* Some artifact of the run failed.
ArtifactFailed(run) ==
  \E i \in 1..Len(run.attempts) : run.attempts[i].outcome = "failed"

\* C22: the apply command, with or without --reverse, exits with 1 exactly
\* when --error-on-fail was given and an artifact failed, and with 0 in every
\* other outcome, a partial failure without --error-on-fail included.
C22_ApplyExitCode ==
  \A run \in {applyRun, reverseRun} :
    (run.ran /\ run.command = "apply") =>
      /\ run.exitCode \in {0, 1}
      /\ run.exitCode = 1 <=> (run.errorOnFail /\ ArtifactFailed(run))

\* An apply without --error-on-fail that failed in part and exited with 0,
\* and an apply --reverse --error-on-fail that failed and exited with 1.
C22_Witness ==
  /\ applyRun.ran /\ applyRun.command = "apply" /\ ~applyRun.errorOnFail
  /\ ArtifactFailed(applyRun) /\ Len(applyRun.patchesApplied) >= 1
  /\ applyRun.exitCode = 0
  /\ reverseRun.ran /\ reverseRun.errorOnFail /\ ArtifactFailed(reverseRun)
  /\ reverseRun.exitCode = 1

(***************************************************************************)
(* The create command, then apply and reverse.  The project starts with an *)
(* empty patch directory and a@1 installed, its index.js as published or   *)
(* edited; b is not installed.  How the directory enumerates a new file is *)
(* the file system's choice.                                               *)
(***************************************************************************)
\* The values of --append: absent, or a description.
Appends == {Undefined, Some(<<"x">>), Some(<<"y">>)}

\* What a developer can have left in index.js of a.
EditedIndex == {<<P, Q>>, <<Q, Q>>}

\* The answers of git, npm pack and tar to one run of create.  A later
\* question is put only when the earlier ones succeeded: the answers that are
\* never asked for are FALSE here.
GitCreateAnswers ==
  {<<TRUE, TRUE, TRUE>>, <<TRUE, TRUE, FALSE>>, <<TRUE, FALSE, FALSE>>,
   <<FALSE, FALSE, FALSE>>}

PackAnswers ==
  {<<"fail", FALSE, FALSE>>, <<"elsewhere", FALSE, FALSE>>,
   <<"elsewhere", TRUE, FALSE>>, <<"ok", FALSE, FALSE>>, <<"ok", TRUE, FALSE>>,
   <<"ok", TRUE, TRUE>>}

CreateEnvs(pj) ==
  {[isGitRepo |-> e[1][1], hasOriginal |-> e[1][2], gitDiff |-> e[1][3],
    pack |-> e[2][1], extract |-> e[2][2], enumeratedFirst |-> e[2][3],
    yarnInfo |-> e[3], writable |-> TRUE] :
     e \in {x \in GitCreateAnswers \X PackAnswers \X YarnInfoAnswers(pj) :
              x[1][3] => x[2][1] = "fail"}}

\* entries with name put after its first k entries.
InsertAt(entries, k, name) ==
  SubSeq(entries, 1, k) \o <<name>> \o SubSeq(entries, k + 1, Len(entries))

InitCreate ==
  /\ nm = NoName
  /\ cat = NoCatalogue
  /\ TrialsOff
  /\ proj = NpmProject
  /\ \E index \in EditedIndex :
       deps = [path \in {PathA} |->
                 Installed(A, V1, Merge(Registry[<<A, V1>>],
                                        [f \in {"index.js"} |-> index]))]
  /\ patchDir = <<>>
  /\ bodyOf = [name \in {} |-> <<>>]
  /\ tempDir = Undefined
  /\ applyRun = [ran |-> FALSE]
  /\ reverseRun = [ran |-> FALSE]
  /\ createLog = <<>>

\* The options --include, --exclude and --case-sensitive when none is given.
NoFilters ==
  [include |-> Undefined, exclude |-> Undefined, caseSensitive |-> FALSE]

\* One run of create, its arguments and the answers it gets drawn from the
\* sets given.
CreatePatchWith(packageNames, appends, envs, filters) ==
  /\ Len(createLog) < MaxCreates
  /\ \E packageName \in packageNames, append \in appends, env \in envs,
        filter \in filters :
       \E result \in {createPatch(packageName, append, proj, deps, tempDir, env)} :
       LET written == result.written[1]
       IN  /\ tempDir' = result.temp
           /\ deps' = result.dp
           /\ createLog' =
                Append(createLog,
                       [packageName |-> packageName, append |-> append,
                        filter |-> filter,
                        success |-> result.success,
                        patchesCreated |-> result.patchesCreated,
                        patchesApplied |-> result.patchesApplied,
                        errors |-> result.errors,
                        written |-> result.written, route |-> result.route,
                        baseline |-> result.baseline])
           /\ IF IsDefined(result.written)
              THEN /\ bodyOf' = Merge(bodyOf,
                                      [f \in {written.name} |-> written.body])
                   /\ IF written.name \in Range(patchDir)
                      THEN patchDir' = patchDir
                      ELSE \E k \in 0..Len(patchDir) :
                             patchDir' = InsertAt(patchDir, k, written.name)
              ELSE UNCHANGED <<patchDir, bodyOf>>
  /\ UNCHANGED <<nm, cat, trialVars, proj, applyRun, reverseRun>>

\* modern-patch-package create <package-name> [--append <description>],
\* outside a git repository.
CreatePatch ==
  CreatePatchWith({A, B}, Appends, {e \in CreateEnvs(proj) : ~e.isGitRepo},
                  {NoFilters})

NextCreate == CreatePatch \/ ApplyPatches \/ ReversePatches

SpecCreate == InitCreate /\ [][NextCreate]_vars

(***************************************************************************)
(* Properties of applyPatches and reversePatches.                          *)
(***************************************************************************)
Runs == {applyRun, reverseRun}

AttemptedFiles(run) == [i \in 1..Len(run.attempts) |-> run.attempts[i].file]

NamesOf(listed) == [i \in 1..Len(listed) |-> listed[i].name]

InSeq(x, seq) == \E i \in 1..Len(seq) : seq[i] = x

HasError(run, f) == \E i \in 1..Len(run.errors) : run.errors[i].file = f

\* Both placeholder marker phrases are in the body.
IsPlaceholder(body) == Includes(body, "manual") /\ Includes(body, "createdBy")

\* Both structural markers are in the body.
IsStructural(body) == Includes(body, "diffgit") /\ Includes(body, "index0")

IsConventional(body) == ~IsPlaceholder(body) /\ ~IsStructural(body)

\* C1: applyPatches attempts exactly the artifacts listPatches returns, in the
\* order of listPatches, whatever the order of the directory enumeration
\* (stated for directories in which every name follows the file-name grammar,
\* so that listPatches returns every enumerated file).
C1_ApplyInCatalogueOrder ==
  (/\ applyRun.ran
   /\ \A f \in Range(applyRun.patchFiles) : matchFileName(f) # NoMatch)
    => AttemptedFiles(applyRun) = NamesOf(listPatches(applyRun.patchFiles))

\* C2: on the same directory reversePatches attempts the artifacts applyPatches
\* attempts, in exactly the reverse order.
C2_ReverseMirrorsApply ==
  (applyRun.ran /\ reverseRun.ran /\ applyRun.patchFiles = reverseRun.patchFiles)
    => AttemptedFiles(reverseRun) = Reverse(AttemptedFiles(applyRun))

C2_Witness ==
  /\ applyRun.ran /\ reverseRun.ran
  /\ applyRun.patchFiles = reverseRun.patchFiles
  /\ Len(applyRun.attempts) >= 3
  /\ AttemptedFiles(reverseRun) # AttemptedFiles(applyRun)

\* C6: a run attempts every enumerated artifact exactly once, also after a
\* failure, and records each in exactly one of patchesApplied and errors.
C6_EveryArtifactAttempted ==
  \A run \in Runs :
    run.ran =>
      /\ Len(run.attempts) = Len(run.patchFiles)
      /\ \A f \in Range(run.patchFiles) :
           /\ Cardinality({i \in 1..Len(run.attempts) : run.attempts[i].file = f}) = 1
           /\ InSeq(f, run.patchesApplied) # HasError(run, f)
           /\ HasError(run, f) <=>
                \E i \in 1..Len(run.attempts) :
                  run.attempts[i].file = f /\ run.attempts[i].outcome = "failed"
      /\ Len(run.patchesApplied) + Len(run.errors) = Len(run.patchFiles)

C6_Witness ==
  /\ applyRun.ran
  /\ Len(applyRun.attempts) >= 2
  /\ applyRun.attempts[1].outcome = "failed"
  /\ applyRun.attempts[2].outcome # "failed"

\* C7: a run reports success exactly when it collected no error.
C7_SuccessIffNoErrors ==
  \A run \in Runs : run.ran => (run.success <=> run.errors = <<>>)

C7_Witness ==
  /\ applyRun.ran /\ ~applyRun.success
  /\ Len(applyRun.errors) = 1 /\ Len(applyRun.patchesApplied) >= 1
  /\ reverseRun.ran /\ reverseRun.success /\ reverseRun.patchFiles # <<>>

\* C8: a conventional diff is first applied whitespace-tolerantly; the attempt
\* with --reject is made once and only after that failed; when it succeeds
\* the artifact is applied with rejections and no error is recorded; when it
\* fails too the error names both failures; nothing else is run.
C8_RetryOnceAfterFailure ==
  applyRun.ran =>
    \A i \in 1..Len(applyRun.attempts) :
      LET at == applyRun.attempts[i]
      IN  IsConventional(bodyOf[at.file]) =>
            /\ Len(at.cmds) \in {1, 2}
            /\ at.cmds[1].cmd = CmdApply
            /\ at.cmds[1].ok <=> Len(at.cmds) = 1
            /\ at.cmds[1].ok => at.outcome = "applied" /\ ~HasError(applyRun, at.file)
            /\ Len(at.cmds) = 2 =>
                 /\ at.cmds[2].cmd = CmdApplyReject
                 /\ at.cmds[2].ok =>
                      /\ at.outcome = "applied-with-rejections"
                      /\ ~HasError(applyRun, at.file)
                      /\ InSeq(at.file, applyRun.patchesApplied)
                 /\ ~at.cmds[2].ok =>
                      /\ at.outcome = "failed"
                      /\ InSeq([file |-> at.file,
                                failures |-> <<CmdApply, CmdApplyReject>>],
                               applyRun.errors)

C8_Witness ==
  /\ applyRun.ran
  /\ \E i, j \in 1..Len(applyRun.attempts) :
       /\ applyRun.attempts[i].outcome = "applied-with-rejections"
       /\ applyRun.attempts[j].outcome = "failed"

\* C9: a placeholder is skipped by applyPatches and by reversePatches, every
\* time: nothing is run, nothing is written, no error is recorded, and a
\* directory of placeholders alone gives success.
C9_PlaceholderSkipped ==
  \A run \in Runs :
    run.ran =>
      /\ \A i \in 1..Len(run.attempts) :
           LET at == run.attempts[i]
           IN  IsPlaceholder(bodyOf[at.file]) =>
                 /\ at.outcome = "skipped-manual"
                 /\ at.cmds = <<>>
                 /\ at.writes = <<>>
                 /\ ~HasError(run, at.file)
      /\ (\A f \in Range(run.patchFiles) : IsPlaceholder(bodyOf[f]))
           => run.success /\ run.errors = <<>>

C9_Witness ==
  /\ applyRun.ran /\ reverseRun.ran
  /\ applyRun.patchFiles = <<PlaceholderB>>
  /\ applyRun.attempts[1].outcome = "skipped-manual"
  /\ reverseRun.attempts[1].outcome = "skipped-manual"
  /\ applyRun.success /\ reverseRun.success

(***************************************************************************)
(* applyPatches over directories that hold a body of every kind: a         *)
(* conventional diff (it has a 'diff --git a/' line and no index line of   *)
(* zeros), a placeholder, two structural diffs, and a body with the        *)
(* markers of both a placeholder and a structural diff.                    *)
(***************************************************************************)
ModeNames == {SeqFixA, PlaceholderB, StructuralA, HandWrittenA, MixedB}

InitModes ==
  /\ nm = NoName
  /\ cat = NoCatalogue
  /\ TrialsOff
  /\ proj = NpmProject
  /\ deps = [path \in {PathA} |-> Installed(A, V1, Registry[<<A, V1>>])]
  /\ \E e \in Enumerations(ModeNames, MaxDir) :
       /\ patchDir = e
       /\ bodyOf = [name \in Range(e) |-> BodyFor(name)]
  /\ tempDir = Undefined
  /\ applyRun = [ran |-> FALSE]
  /\ reverseRun = [ran |-> FALSE]
  /\ createLog = <<>>

NextModes == ApplyPatches

SpecModes == InitModes /\ [][NextModes]_vars

\* C27: applyPatch takes one of three modes, in this precedence: a body with
\* both placeholder phrases is skipped, whatever else it holds; else a body
\* with both structural markers is replayed by the program and never handed
\* to the patch utility; every other body is handed to the patch utility.
C27_ThreeModes ==
  applyRun.ran =>
    \A i \in 1..Len(applyRun.attempts) :
      LET at == applyRun.attempts[i]
          body == bodyOf[at.file]
      IN  /\ IsPlaceholder(body) =>
               at.outcome = "skipped-manual" /\ at.cmds = <<>> /\ at.writes = <<>>
          /\ (~IsPlaceholder(body) /\ IsStructural(body)) =>
               at.outcome = "applied" /\ at.cmds = <<>>
          /\ (~IsPlaceholder(body) /\ ~IsStructural(body)) =>
               /\ at.cmds # <<>>
               /\ at.cmds[1].cmd = CmdApply
               /\ at.writes = <<>>

\* One run that skipped the body with both kinds of markers, replayed the
\* hand-written structural diff, and handed the conventional diff to the
\* patch utility.
C27_Witness ==
  /\ applyRun.ran
  /\ \E i, j, k \in 1..Len(applyRun.attempts) :
       /\ applyRun.attempts[i].file = MixedB
       /\ applyRun.attempts[i].outcome = "skipped-manual"
       /\ applyRun.attempts[j].file = HandWrittenA
       /\ applyRun.attempts[j].writes # <<>>
       /\ applyRun.attempts[j].cmds = <<>>
       /\ applyRun.attempts[k].file = SeqFixA
       /\ applyRun.attempts[k].cmds # <<>>

(***************************************************************************)
(* Properties of the create command.                                       *)
(***************************************************************************)
\* The runs of create with --append that wrote an artifact for packageName,
\* up to run i.
AppendCreations(packageName, i) ==
  {j \in 1..i : /\ createLog[j].success
                /\ IsDefined(createLog[j].append)
                /\ createLog[j].packageName = packageName}

\* C5: the artifacts successive runs of create --append write for one
\* dependency at one version carry increasing sequence numbers: the first
\* 001, the second 002.
C5_AppendNumbersIncrease ==
  \A i \in 1..Len(createLog) :
    i \in AppendCreations(createLog[i].packageName, i) =>
      createLog[i].patchesCreated =
        <<generatePatchFileName(
            createLog[i].packageName, V1,
            Some(Cardinality(AppendCreations(createLog[i].packageName, i))),
            createLog[i].append)>>

\* The context and added lines of a body, in order.
Reconstructed(body) ==
  LET kept == SelectSeq(body, LAMBDA line : line.k \in {"ctx", "add"})
  IN  [i \in 1..Len(kept) |-> kept[i].t]

\* C10: applying a structural diff that create wrote for an installed
\* dependency overwrites the entry point of that dependency (main, else
\* index.js) with the context and added lines of the diff.
C10_StructuralApplyWritesEntryPoint ==
  applyRun.ran =>
    \A i \in 1..Len(applyRun.attempts) :
      LET at == applyRun.attempts[i]
      IN  (/\ IsStructural(bodyOf[at.file])
           /\ at.outcome = "applied" /\ at.cmds = <<>>)
            => \E w \in Range(at.writes) :
                 /\ w.path = PathA
                 /\ w.file = MainFileOf(deps[PathA].manifest[1])
                 /\ w.content = Reconstructed(bodyOf[at.file])

(***************************************************************************)
(* The structural diff of two trees that hold index.js and lib.js: lib.js  *)
(* is the same on both sides, index.js is any pair of contents.  A content *)
(* is a sequence of at least one line (''.split('\n') is ['']); a line is  *)
(* p, q or empty.                                                          *)
(***************************************************************************)
DiffLineValues == {P, Q, <<>>}

RECURSIVE ContentsUpTo(_)
ContentsUpTo(n) ==
  IF n = 0 THEN {<<>>}
  ELSE ContentsUpTo(n - 1)
       \cup {Append(c, l) : c \in {x \in ContentsUpTo(n - 1) : Len(x) = n - 1},
                            l \in DiffLineValues}

FileContents == ContentsUpTo(MaxLines) \ {<<>>}

TreeWith(index) == [f \in {"index.js", "lib.js"} |->
                      IF f = "index.js" THEN index ELSE <<P>>]

InitDiff ==
  /\ LifeOff
  /\ nm = NoName
  /\ cat = NoCatalogue
  /\ rp = NoResolve
  /\ sf = NoFilter
  /\ \E o \in FileContents, m \in FileContents :
       df = [phase |-> "trees", original |-> o, modified |-> m, body |-> <<>>]

\* The loop of createPatchFromRegistry over the common files.
CompareTrees ==
  /\ df.phase = "trees"
  /\ df' = [df EXCEPT !.phase = "diffed",
                      !.body = DiffCommonFiles(RelPaths, TreeWith(df.original),
                                               TreeWith(df.modified))]
  /\ UNCHANGED <<nm, cat, rp, sf, lifeVars>>

NextDiff == CompareTrees

SpecDiff == InitDiff /\ [][NextDiff]_vars

\* C11: when the two contents differ, the context and added lines of the
\* hunk, in order and without their marker, are the lines of the modified
\* file: none dropped, none extra.
C11_DiffReconstructsModified ==
  (df.phase = "diffed" /\ df.original # df.modified)
    => Reconstructed(df.body) = df.modified

\* The line positions at which two contents differ; a line that only one of
\* them has is a difference.
DifferingPositions(o, m) ==
  {i \in 1..Max(Len(o), Len(m)) :
     \/ i > Len(o)
     \/ i > Len(m)
     \/ o[i] # m[i]}

\* C20: when one common file differs, and in one line only, the diff holds
\* one hunk and its body has max(baseLineCount, modifiedLineCount) lines.
C20_HunkBodyLength ==
  (df.phase = "diffed"
   /\ Cardinality(DifferingPositions(df.original, df.modified)) = 1)
    => /\ Cardinality({i \in 1..Len(df.body) : df.body[i].k = "hunk"}) = 1
       /\ Len(df.body) - 1 = Max(Len(df.original), Len(df.modified))

(***************************************************************************)
(* The create command alone, run up to MaxCreates times on a project in    *)
(* which a@1 is installed with index.js as published or edited, and b is   *)
(* missing, present without a package.json, or installed as b@1 with       *)
(* index.js as published or edited, or with a file lib.js added.           *)
(***************************************************************************)
\* What node_modules/b can be: no directory at all is Undefined.
InstalledB ==
  {Undefined,
   Some([manifest |-> Undefined, files |-> Registry[<<B, V1>>]]),
   Some(Installed(B, V1, Registry[<<B, V1>>])),
   Some(Installed(B, V1, [f \in {"index.js"} |-> <<P>>])),
   Some(Installed(B, V1, [f \in {"index.js", "lib.js"} |-> <<Q>>]))}

InitCreateOnly ==
  /\ nm = NoName
  /\ cat = NoCatalogue
  /\ TrialsOff
  /\ proj = NpmProject
  /\ \E index \in EditedIndex, b \in InstalledB :
       deps = [path \in {PathA} \cup (IF IsDefined(b) THEN {PathB} ELSE {}) |->
                 IF path = PathA
                 THEN Installed(A, V1, Merge(Registry[<<A, V1>>],
                                             [f \in {"index.js"} |-> index]))
                 ELSE b[1]]
  /\ patchDir = <<>>
  /\ bodyOf = [name \in {} |-> <<>>]
  /\ tempDir = Undefined
  /\ applyRun = [ran |-> FALSE]
  /\ reverseRun = [ran |-> FALSE]
  /\ createLog = <<>>

\* modern-patch-package create <package-name>, in a git repository or not.
CreatePlain ==
  CreatePatchWith({A, B}, {Undefined}, CreateEnvs(proj), {NoFilters})

NextCreateOnly == CreatePlain

SpecCreateOnly == InitCreateOnly /\ [][NextCreateOnly]_vars

\* The dependency directory and its package.json are there.
Resolves(packageName) ==
  /\ <<NodeModules, packageName>> \in DOMAIN deps
  /\ IsDefined(deps[<<NodeModules, packageName>>].manifest)

\* C12: a create whose dependency directory or package.json is not found
\* still writes a placeholder and does not report failure.
C12_ResolutionFailureAbsorbed ==
  \A i \in 1..Len(createLog) :
    ~Resolves(createLog[i].packageName) =>
      /\ createLog[i].success
      /\ createLog[i].errors = <<>>
      /\ IsDefined(createLog[i].written)
      /\ IsPlaceholder(createLog[i].written[1].body)

\* The returns of createPatchFromRegistry without a diff: npm pack failed, no
\* tarball was found, tar failed, no common file differs.
NoDiffRoutes == {"pack-failed", "no-tarball", "extract-failed", "no-difference"}

C14_FreshBaseline ==
  \A i \in 1..Len(createLog) :
    IsDefined(createLog[i].baseline) =>
      /\ createLog[i].baseline[1].tarball = <<createLog[i].packageName, V1>>
      /\ createLog[i].baseline[1].extracted
           = Published(<<createLog[i].packageName, V1>>)

\* C28: for a structural diff that create wrote for the dependency N, the
\* name applyCustomPatch takes from the header 'diff --git a/N b/N' is N, and
\* so is every name it gives to getPackagePath.
C28_HeaderNameRoundTrip ==
  applyRun.ran =>
    \A i \in 1..Len(applyRun.attempts), j \in 1..Len(createLog) :
      LET at == applyRun.attempts[i]
          made == createLog[j]
      IN  (/\ made.route = "registry-diff"
           /\ made.patchesCreated = <<at.file>>
           /\ bodyOf[at.file] = made.written[1].body)
            => /\ at.headers = <<made.packageName>>
               /\ \A k \in 1..Len(at.lookups) : at.lookups[k] = made.packageName

\* The answers to a run of create, the artifact writable or not.
CreateEnvsAnyDisk(pj) ==
  {[e EXCEPT !.writable = w] : e \in CreateEnvs(pj), w \in BOOLEAN}

\* modern-patch-package create <package-name>, in a git repository or not,
\* the artifact writable or not.
CreateAny ==
  CreatePatchWith({A, B}, {Undefined}, CreateEnvsAnyDisk(proj), {NoFilters})

NextCreateAny == CreateAny

SpecCreateAny == InitCreateOnly /\ [][NextCreateAny]_vars

\* C29: in the result of createPatch success holds exactly when
\* patchesCreated holds exactly one path and exactly when errors is empty;
\* on success the artifact has been written at that path; patchesApplied is
\* always empty.
C29_CreateResult ==
  \A i \in 1..Len(createLog) :
    LET result == createLog[i]
    IN  /\ result.success <=> Len(result.patchesCreated) = 1
        /\ result.success <=> result.errors = <<>>
        /\ result.patchesApplied = <<>>
        /\ result.success =>
             /\ IsDefined(result.written)
             /\ result.written[1].name = result.patchesCreated[1]
             /\ InSeq(result.patchesCreated[1], patchDir)

\* A create that failed for a missing dependency, one that failed in the
\* write of the artifact, and in between neither: two runs, the first
\* failed at the write, the second wrote a structural diff.
C29_Witness ==
  /\ Len(createLog) = 2
  /\ createLog[1].route = "write-failed" /\ ~createLog[1].success
  /\ createLog[1].errors # <<>>
  /\ createLog[2].route = "registry-diff" /\ createLog[2].success
  /\ InSeq(createLog[2].patchesCreated[1], patchDir)

\* C30: a run of create, however it ends, leaves every installed dependency
\* and the project as they were; what it changes lies in the patch directory:
\* temp-original, and at most the one artifact it names.
C30_CreateFrame ==
  [][Len(createLog') > Len(createLog) =>
       LET result == createLog'[Len(createLog')]
           named == IF IsDefined(result.written) THEN {result.written[1].name}
                    ELSE {}
       IN  /\ deps' = deps
           /\ proj' = proj
           /\ Range(patchDir') = Range(patchDir) \cup named
           /\ \A f \in Range(patchDir) \ named : bodyOf'[f] = bodyOf[f]]_vars

\* Two runs of create have ended, one by a registry comparison that left
\* temp-original behind and one by the output of git diff, and the edited
\* index.js of a is as it was.
C30_Witness ==
  /\ Len(createLog) = 2
  /\ createLog[1].route = "registry-diff"
  /\ createLog[2].route = "git-diff"
  /\ IsDefined(tempDir)
  /\ deps[PathA].files["index.js"] = <<Q, Q>>

\* C15: the patch directory holds *.patch files and nothing else.
C15_OnlyPatchFiles ==
  /\ ~IsDefined(tempDir)
  /\ \A i \in 1..Len(patchDir) : patchDir[i][Len(patchDir[i])] = DotPatch

\* C21: the comparison of the two trees reports a difference exactly when a
\* file found under the same relative path in both has different content.
\* Equal trees, and trees that differ only by files one of them holds, give
\* no difference, and the artifact written is then a placeholder.
C21_DifferenceIffCommonFileDiffers ==
  \A i \in 1..Len(createLog) :
    IsDefined(createLog[i].baseline) =>
      LET original == createLog[i].baseline[1].extracted
          modified == createLog[i].baseline[1].modified
          differs == \E f \in DOMAIN original \cap DOMAIN modified :
                       original[f] # modified[f]
          body == createLog[i].written[1].body
      IN  /\ createLog[i].route = "registry-diff" <=> differs
          /\ createLog[i].route = "no-difference" <=> ~differs
          /\ IsDefined(createLog[i].written)
          /\ differs => IsStructural(body) /\ ~IsPlaceholder(body)
          /\ ~differs => IsPlaceholder(body)

\* One create compared equal trees, another trees of which one holds a file
\* the other lacks, and both wrote a placeholder.
C21_Witness ==
  /\ Len(createLog) = 2
  /\ \A i \in 1..2 :
       /\ IsDefined(createLog[i].baseline)
       /\ createLog[i].route = "no-difference"
       /\ IsPlaceholder(createLog[i].written[1].body)
  /\ createLog[1].baseline[1].extracted = createLog[1].baseline[1].modified
  /\ DOMAIN createLog[2].baseline[1].extracted
       # DOMAIN createLog[2].baseline[1].modified

(***************************************************************************)
(* The create command with --include, --exclude and --case-sensitive, for  *)
(* the package a outside a git repository.                                 *)
(***************************************************************************)
\* The characters of a relative path.
PathChars(file) ==
  CASE file = "index.js" -> <<"i", "n", "d", "e", "x", ".", "j", "s">>
    [] file = "lib.js" -> <<"l", "i", "b", ".", "j", "s">>
    [] file = "package.json" ->
         <<"p", "a", "c", "k", "a", "g", "e", ".", "j", "s", "o", "n">>

\* --include lib.js or none; --exclude index.js, --exclude *.js or none.
CreateFilters ==
  [include : {Undefined, Some(<<PathChars("lib.js")>>)},
   exclude : {Undefined, Some(<<PathChars("index.js")>>),
              Some(<<<<"*", ".", "j", "s">>>>)},
   caseSensitive : BOOLEAN]

\* modern-patch-package create a [--include ...] [--exclude ...]
\* [--case-sensitive]
CreateFiltered ==
  CreatePatchWith({A}, {Undefined}, {e \in CreateEnvs(proj) : ~e.isGitRepo},
                  CreateFilters)

NextCreateFiltered == CreateFiltered

SpecCreateFiltered == InitCreate /\ [][NextCreateFiltered]_vars

\* The file passes the filters of a run of create.
PassesFilters(file, filter) ==
  /\ ~MatchesSome(filter.exclude, PathChars(file), filter.caseSensitive)
  /\ \/ ~IsDefined(filter.include)
     \/ MatchesSome(filter.include, PathChars(file), filter.caseSensitive)

\* The hunks of a body: its hunk headers and the lines under them.
HunksOf(body) ==
  SelectSeq(body, LAMBDA line : line.k \in {"hunk", "ctx", "add", "del"})

\* C24: the artifact of a create with --exclude or --include records the
\* changes of the files that pass the filters and of no other file.
C24_FiltersHonoured ==
  \A i \in 1..Len(createLog) :
    (IsDefined(createLog[i].baseline) /\ IsDefined(createLog[i].written)) =>
      HunksOf(createLog[i].written[1].body)
        = DiffCommonFiles(
            SelectSeq(RelPaths,
                      LAMBDA file : PassesFilters(file, createLog[i].filter)),
            createLog[i].baseline[1].extracted,
            createLog[i].baseline[1].modified)

(***************************************************************************)
(* getPackagePath for the package a in any project: any lock files, a yarn *)
(* version of 1.22, 3.6, 10.0 or none that could be read, any of the four  *)
(* top directories, and a in any of those that exist.                      *)
(***************************************************************************)
LockFiles == {"yarn.lock", "pnpm-lock.yaml", "package-lock.json"}

YarnVersions ==
  {Some(<<"1", ".", "2", "2">>), Some(<<"3", ".", "6">>),
   Some(<<"1", "0", ".", "0">>), Undefined}

TopDirs == {NodeModules, DotPnpm, YarnCache, YarnUnplugged}

InitResolve ==
  /\ nm = NoName
  /\ cat = NoCatalogue
  /\ df = NoDiff
  /\ sf = NoFilter
  /\ \E locks \in SUBSET LockFiles, yarnVersion \in YarnVersions,
        dirs \in SUBSET TopDirs :
       /\ proj = [lockFiles |-> locks,
                  version |-> [m \in {"yarn", "pnpm", "npm"} |->
                                 IF m = "yarn" THEN yarnVersion
                                 ELSE Some(<<"9", ".", "0">>)],
                  dirs |-> dirs]
       /\ \E holding \in SUBSET dirs :
            deps = [path \in {<<top, A>> : top \in holding} |->
                      Installed(A, V1, Registry[<<A, V1>>])]
  /\ patchDir = <<>>
  /\ bodyOf = <<>>
  /\ tempDir = Undefined
  /\ applyRun = [ran |-> FALSE]
  /\ reverseRun = [ran |-> FALSE]
  /\ createLog = <<>>
  /\ rp = [phase |-> "asked", packageName |-> A]

\* getPackagePath(packageName)
Resolve ==
  /\ rp.phase = "asked"
  /\ \E yarnInfo \in YarnInfoAnswers(proj) :
       LET trace == getPackagePathTrace(rp.packageName, proj, deps, yarnInfo)
       IN  rp' = [phase |-> "resolved", packageName |-> rp.packageName,
                  yarnInfo |-> yarnInfo, result |-> trace.result,
                  probes |-> trace.probes, queried |-> trace.queried]
  /\ UNCHANGED <<nm, cat, df, sf, lifeVars>>

NextResolve == Resolve

SpecResolve == InitResolve /\ [][NextResolve]_vars

Exists(top) == <<top, rp.packageName>> \in DOMAIN deps

\* The first of the tops, in order, under which the package exists.
RECURSIVE FirstHolding(_)
FirstHolding(tops) ==
  IF tops = <<>> THEN Undefined
  ELSE IF Exists(Head(tops)) THEN Some(<<Head(tops), rp.packageName>>)
  ELSE FirstHolding(Tail(tops))

YarnIdentity == "yarn.lock" \in proj.lockFiles

\* The yarn version could be read and starts with "1.".
YarnClassic ==
  /\ YarnIdentity
  /\ IsDefined(proj.version["yarn"])
  /\ SubSeq(proj.version["yarn"][1], 1, 2) = <<"1", ".">>

\* The yarn version could be read and does not start with "1.".
YarnBerry ==
  /\ YarnIdentity
  /\ IsDefined(proj.version["yarn"])
  /\ SubSeq(proj.version["yarn"][1], 1, 2) # <<"1", ".">>

\* C16: for npm and pnpm the result is the first of node_modules/<name> and
\* .pnpm/<name> that exists, and null only when neither exists.
C16_NpmFirstExisting ==
  (rp.phase = "resolved" /\ ~YarnIdentity)
    => rp.result = FirstHolding(<<NodeModules, DotPnpm>>)

\* C17: for yarn 1.x only node_modules/<name> is probed, the location query
\* is not run, and the result is that path when it exists, else null.
C17_YarnClassicOneProbe ==
  (rp.phase = "resolved" /\ YarnClassic)
    => /\ rp.probes = <<<<NodeModules, rp.packageName>>>>
       /\ ~rp.queried
       /\ rp.result = FirstHolding(<<NodeModules>>)

C17_Witness ==
  /\ rp.phase = "resolved" /\ YarnClassic
  /\ ~Exists(NodeModules) /\ Exists(YarnCache) /\ Exists(YarnUnplugged)
  /\ rp.result = Undefined

\* C18: for yarn 2 and later the result is the first that exists of
\* node_modules/<name>, .yarn/cache/<name>, .yarn/unplugged/<name>, probed in
\* that order; the location query is run only when none exists, and the
\* location it names is returned.
C18_YarnBerryOrder ==
  LET order == <<NodeModules, YarnCache, YarnUnplugged>>
      found == FirstHolding(order)
  IN  (rp.phase = "resolved" /\ YarnBerry)
        => /\ IsDefined(found) =>
                /\ rp.result = found
                /\ ~rp.queried
                /\ \E n \in 1..3 :
                     rp.probes = [i \in 1..n |-> <<order[i], rp.packageName>>]
                /\ rp.probes[Len(rp.probes)] = found[1]
           /\ ~IsDefined(found) =>
                /\ rp.queried
                /\ SubSeq(rp.probes, 1, 3)
                     = [i \in 1..3 |-> <<order[i], rp.packageName>>]
                /\ (rp.yarnInfo.ok /\ IsDefined(rp.yarnInfo.location))
                     => rp.result = rp.yarnInfo.location

C18_Witness ==
  /\ rp.phase = "resolved" /\ YarnBerry
  /\ ~Exists(NodeModules) /\ Exists(YarnCache) /\ Exists(YarnUnplugged)
  /\ rp.result = Some(<<YarnCache, rp.packageName>>)
  /\ ~rp.queried

\* C19: for yarn 2 and later, when the three probes and the location query
\* fail, the result is node_modules/<name>, whether it exists or not.
C19_FallbackUnverified ==
  (/\ rp.phase = "resolved" /\ YarnBerry
   /\ FirstHolding(<<NodeModules, YarnCache, YarnUnplugged>>) = Undefined
   /\ ~rp.yarnInfo.ok)
    => rp.result = Some(<<NodeModules, rp.packageName>>)

(***************************************************************************)
(* detectPackageManager in any project: any of the three lock files, and   *)
(* for each manager a version query that answers or fails.                 *)
(***************************************************************************)
VersionAnswers ==
  [{"yarn", "pnpm", "npm"} -> {Some(<<"9", ".", "0">>), Undefined}]

InitDetect ==
  /\ nm = NoName
  /\ cat = NoCatalogue
  /\ df = NoDiff
  /\ sf = NoFilter
  /\ \E locks \in SUBSET LockFiles, version \in VersionAnswers :
       proj = [lockFiles |-> locks, version |-> version, dirs |-> {}]
  /\ deps = <<>>
  /\ patchDir = <<>>
  /\ bodyOf = <<>>
  /\ tempDir = Undefined
  /\ applyRun = [ran |-> FALSE]
  /\ reverseRun = [ran |-> FALSE]
  /\ createLog = <<>>
  /\ rp = [phase |-> "detecting"]

\* detectPackageManager()
Detect ==
  /\ rp.phase = "detecting"
  /\ rp' = [phase |-> "detected", identity |-> detectPackageManager(proj)]
  /\ UNCHANGED <<nm, cat, df, sf, lifeVars>>

NextDetect == Detect

SpecDetect == InitDetect /\ [][NextDetect]_vars

\* The lock files in the order of their precedence, with their managers.
LockPrecedence ==
  <<[lockFile |-> "yarn.lock", name |-> "yarn"],
    [lockFile |-> "pnpm-lock.yaml", name |-> "pnpm"],
    [lockFile |-> "package-lock.json", name |-> "npm"]>>

\* C26: the identity is that of the first lock file present in the order
\* yarn.lock, pnpm-lock.yaml, package-lock.json, with hasLockFile = TRUE;
\* with none present it is npm with package-lock.json and hasLockFile =
\* FALSE; the version is the answer of that manager's version query, and
\* 'unknown' when the query fails.
C26_LockFilePrecedence ==
  rp.phase = "detected" =>
    LET present == {i \in 1..3 : LockPrecedence[i].lockFile \in proj.lockFiles}
        first == CHOOSE i \in present : \A j \in present : i <= j
        name == IF present = {} THEN "npm" ELSE LockPrecedence[first].name
    IN  /\ rp.identity.name = name
        /\ rp.identity.lockFile =
             (IF present = {} THEN "package-lock.json"
              ELSE LockPrecedence[first].lockFile)
        /\ rp.identity.hasLockFile = (present # {})
        /\ rp.identity.version =
             (IF IsDefined(proj.version[name]) THEN proj.version[name][1]
              ELSE Unknown)

\* All three lock files are present and "yarn --version" fails: the identity
\* is yarn with version 'unknown'.
C26_Witness ==
  /\ rp.phase = "detected"
  /\ proj.lockFiles = LockFiles
  /\ ~IsDefined(proj.version["yarn"]) /\ IsDefined(proj.version["pnpm"])
  /\ rp.identity = [name |-> "yarn", version |-> Unknown,
                    lockFile |-> "yarn.lock", hasLockFile |-> TRUE]

====
